---- MODULE Spec2Model ----
(***************************************************************************)
(* gcp-billing: the schedule commands of the CLI (src/dist/index.js,       *)
(* compiled from the TypeScript source) and the manageBilling HTTP         *)
(* callback (src/cloud-function/index.js), with the two remote services    *)
(* they call: Cloud Scheduler (createJob, getJob) and Cloud Billing        *)
(* (updateProjectBillingInfo).                                             *)
(*                                                                         *)
(* JavaScript strings are TLA+ strings where the code only names or        *)
(* concatenates them; the strings whose characters matter (the --time and  *)
(* --cron texts, the schedule made of them, the project line of the gcloud *)
(* configuration) are sequences of one-character strings.                  *)
(* An object whose property may be missing (commander's options, an error) *)
(* is a record that has the field only when the property is there.         *)
(***************************************************************************)
EXTENDS Integers, Sequences, FiniteSets, TLC

VARIABLES
    clock,           \* the wall clock Date.now() reads, in milliseconds
    gcloudConfig,    \* ~/.config/gcloud/configurations/config_default
    faults,          \* the errors the remote services may answer with
    cli,             \* the CLI processes: position, arguments, locals, console
    schedulerJobs,   \* the jobs Cloud Scheduler holds
    schedulerCalls,  \* the calls each CLI process made to Cloud Scheduler, in order
    inv,             \* the invocations of the manageBilling callback
    billingInfo,     \* Cloud Billing: project name -> its billing info
    billingCalls,    \* the updateProjectBillingInfo requests, in order of issue
    billingApplied   \* the invocations whose update Cloud Billing applied, in order

vars == <<clock, gcloudConfig, faults, cli, schedulerJobs, schedulerCalls,
          inv, billingInfo, billingCalls, billingApplied>>

cliVars == <<clock, gcloudConfig, faults, cli, schedulerJobs, schedulerCalls>>
callbackVars == <<inv, billingInfo, billingCalls, billingApplied>>

-----------------------------------------------------------------------------
(* Bounds *)

MaxRuns == 2          \* CLI processes
MaxClock == 2         \* milliseconds the clock may advance
MaxInvocations == 2   \* callback invocations

Runs == 1..MaxRuns
Invocations == 1..MaxInvocations

-----------------------------------------------------------------------------
(* JavaScript values *)

Null == "<null>"             \* null: no string of the inputs equals it
Undefined == "<undefined>"   \* undefined: likewise

\* !v for v a string, null or undefined
Falsy(v) == v \in {Null, Undefined, ""}

\* obj.key is truthy, for a key that holds a string
HasText(obj, key) == key \in DOMAIN obj /\ obj[key] # ""

\* obj.key is truthy, for a key that holds a sequence of characters
HasChars(obj, key) == key \in DOMAIN obj /\ obj[key] # <<>>

RECURSIVE Join(_)
\* the string made of the characters cs
Join(cs) == IF cs = <<>> THEN "" ELSE Head(cs) \o Join(Tail(cs))

RECURSIVE Split(_, _)
\* String.prototype.split(sep), sep one character
Split(cs, sep) ==
    IF \E i \in 1..Len(cs) : cs[i] = sep
    THEN LET i == CHOOSE k \in 1..Len(cs) :
                      cs[k] = sep /\ \A j \in 1..(k - 1) : cs[j] # sep
         IN  <<SubSeq(cs, 1, i - 1)>> \o Split(SubSeq(cs, i + 1, Len(cs)), sep)
    ELSE <<cs>>

\* `${parts[k]}`: an element a destructuring found missing prints "undefined"
TemplateText(parts, k) ==
    IF k <= Len(parts) THEN parts[k] ELSE <<"u", "n", "d", "e", "f", "i", "n", "e", "d">>

RECURSIVE Trim(_)
\* String.prototype.trim() for the blank " "
Trim(cs) ==
    IF cs = <<>> THEN cs
    ELSE IF Head(cs) = " " THEN Trim(Tail(cs))
    ELSE IF cs[Len(cs)] = " " THEN Trim(SubSeq(cs, 1, Len(cs) - 1))
    ELSE cs

-----------------------------------------------------------------------------
(* The console *)

ConsoleError(text) == [kind |-> "console.error", text |-> text]
ConsoleLog(text) == [kind |-> "console.log", text |-> text]
SpinnerSucceed(text) == [kind |-> "spinner.succeed", text |-> text]
SpinnerFail(text) == [kind |-> "spinner.fail", text |-> text]

-----------------------------------------------------------------------------
(* Errors: a record with a message and, when a remote service raised it,   *)
(* the gRPC status code and possibly a reason.                             *)

PERMISSION_DENIED == 7
UNAUTHENTICATED == 16
NOT_FOUND == 5

HasCode(error, code) == "code" \in DOMAIN error /\ error.code = code
HasReason(error, reason) == "reason" \in DOMAIN error /\ error.reason = reason

\* new Error(message)
NewError(message) == [message |-> message]

\* the errors a remote service can answer with
ApiErrors ==
    { [code |-> PERMISSION_DENIED, reason |-> "SERVICE_DISABLED",
       message |-> "API has not been used in project before or it is disabled"],
      [code |-> PERMISSION_DENIED, reason |-> "PERMISSION_DENIED",
       message |-> "The caller does not have permission"],
      [code |-> PERMISSION_DENIED, reason |-> "IAM_PERMISSION_DENIED",
       message |-> "Permission denied on resource"],
      [code |-> PERMISSION_DENIED, message |-> "Permission denied"],
      [code |-> UNAUTHENTICATED, reason |-> "ACCESS_TOKEN_EXPIRED",
       message |-> "Request had invalid authentication credentials"],
      [code |-> UNAUTHENTICATED, message |-> "Could not load the default credentials"],
      [code |-> NOT_FOUND, message |-> "Requested entity was not found"],
      [code |-> 14, message |-> "The service is currently unavailable"],
      [message |-> "socket hang up"] }

\* Cloud Scheduler's answer to createJob for a name it already holds
AlreadyExists == [code |-> 6, message |-> "Job already exists"]

\* HandleApiError with the roles named for every code 7 that is not a
\* disabled API
HandleApiErrorByCode(error) ==
    <<SpinnerFail("Operation failed")>> \o
    IF HasCode(error, PERMISSION_DENIED) /\ HasReason(error, "SERVICE_DISABLED")
    THEN <<ConsoleError("Error: Required GCP APIs are not enabled."),
           ConsoleLog("gcloud services enable cloudbilling.googleapis.com"),
           ConsoleLog("gcloud services enable cloudresourcemanager.googleapis.com"),
           ConsoleLog("gcloud services enable cloudscheduler.googleapis.com")>>
    ELSE IF HasCode(error, PERMISSION_DENIED)
    THEN <<ConsoleError("Error: You don't have the required permissions to perform this action."),
           ConsoleLog("- Billing Account Administrator (roles/billing.admin)"),
           ConsoleLog("- Billing Account User (roles/billing.user) - for linking projects only")>>
    ELSE IF HasCode(error, UNAUTHENTICATED)
    THEN <<ConsoleError("Error: Authentication failed. Please make sure you are properly authenticated."),
           ConsoleLog("gcloud auth application-default login")>>
    ELSE <<ConsoleError("Error: " \o error.message)>>

\* handleApiError(error, spinner): what it prints
HandleApiError(error) ==
    <<SpinnerFail("Operation failed")>> \o
    IF HasCode(error, PERMISSION_DENIED) /\ HasReason(error, "SERVICE_DISABLED")
    THEN <<ConsoleError("Error: Required GCP APIs are not enabled."),
           ConsoleLog("gcloud services enable cloudbilling.googleapis.com"),
           ConsoleLog("gcloud services enable cloudresourcemanager.googleapis.com"),
           ConsoleLog("gcloud services enable cloudscheduler.googleapis.com")>>
    ELSE IF HasCode(error, PERMISSION_DENIED) /\ HasReason(error, "PERMISSION_DENIED")
    THEN <<ConsoleError("Error: You don't have the required permissions to perform this action."),
           ConsoleLog("- Billing Account Administrator (roles/billing.admin)"),
           ConsoleLog("- Billing Account User (roles/billing.user) - for linking projects only")>>
    ELSE IF HasCode(error, UNAUTHENTICATED)
    THEN <<ConsoleError("Error: Authentication failed. Please make sure you are properly authenticated."),
           ConsoleLog("gcloud auth application-default login")>>
    ELSE <<ConsoleError("Error: " \o error.message)>>

-----------------------------------------------------------------------------
(* scheduleOperation *)

\* GetCurrentProjectId that fails only when the file cannot be read
GetCurrentProjectIdOfReadable ==
    IF gcloudConfig.readable
    THEN [ok |-> TRUE,
          value |-> IF HasChars(gcloudConfig, "project")
                    THEN Join(Trim(gcloudConfig.project)) ELSE "undefined"]
    ELSE [ok |-> FALSE,
          error |-> NewError("Failed to read project ID from gcloud config. Make sure you have run: gcloud config set project PROJECT_ID")]

\* getCurrentProjectId(): gcloudConfig.project is what (.+) captures after
\* "project = " in the first line that has it
GetCurrentProjectId ==
    IF gcloudConfig.readable /\ HasChars(gcloudConfig, "project")
    THEN [ok |-> TRUE, value |-> Join(Trim(gcloudConfig.project))]
    ELSE [ok |-> FALSE,
          error |-> NewError("Failed to read project ID from gcloud config. Make sure you have run: gcloud config set project PROJECT_ID")]

\* ScheduleOf with the hour put first: `${hours} ${minutes} * * *`
ScheduleOfHourFirst(options) ==
    IF HasChars(options, "cron")
    THEN [ok |-> TRUE, value |-> options.cron]
    ELSE IF HasChars(options, "time")
    THEN LET parts == Split(options.time, ":")
         IN  [ok |-> TRUE,
              value |-> TemplateText(parts, 1) \o <<" ">> \o TemplateText(parts, 2)
                            \o <<" ", "*", " ", "*", " ", "*">>]
    ELSE [ok |-> FALSE, error |-> NewError("Either --time or --cron must be specified")]

\* ScheduleOf with the expression trimmed: options.cron.trim()
ScheduleOfTrimmed(options) ==
    IF HasChars(options, "cron")
    THEN [ok |-> TRUE, value |-> Trim(options.cron)]
    ELSE IF HasChars(options, "time")
    THEN LET parts == Split(options.time, ":")
         IN  [ok |-> TRUE,
              value |-> TemplateText(parts, 2) \o <<" ">> \o TemplateText(parts, 1)
                            \o <<" ", "*", " ", "*", " ", "*">>]
    ELSE [ok |-> FALSE, error |-> NewError("Either --time or --cron must be specified")]

\* the schedule of the job, from options.cron or options.time
ScheduleOf(options) ==
    IF HasChars(options, "cron")
    THEN [ok |-> TRUE, value |-> options.cron]
    ELSE IF HasChars(options, "time")
    THEN LET parts == Split(options.time, ":")
         IN  [ok |-> TRUE,
              value |-> TemplateText(parts, 2) \o <<" ">> \o TemplateText(parts, 1)
                            \o <<" ", "*", " ", "*", " ", "*">>]
    ELSE [ok |-> FALSE, error |-> NewError("Either --time or --cron must be specified")]

Parent(currentProjectId) == "projects/" \o currentProjectId \o "/locations/us-central1"

\* JobName without the clock reading: `billing-${action}-${targetProjectId}`
JobNameWithoutTime(enable, targetProjectId, now) ==
    "billing-" \o (IF enable THEN "enable" ELSE "disable") \o "-" \o targetProjectId

JobName(enable, targetProjectId, now) ==
    "billing-" \o (IF enable THEN "enable" ELSE "disable") \o "-" \o targetProjectId
        \o "-" \o ToString(now)

\* the grave accent (code 96), which no TLA+ string can hold
Grave == "<grave>"

\* the printable ASCII characters, in the order of their codes 32..126
Printable ==
    <<" ", "!", "\"", "#", "$", "%", "&", "'", "(", ")", "*", "+", ",", "-", ".", "/",
      "0", "1", "2", "3", "4", "5", "6", "7", "8", "9", ":", ";", "<", "=", ">", "?",
      "@", "A", "B", "C", "D", "E", "F", "G", "H", "I", "J", "K", "L", "M", "N", "O",
      "P", "Q", "R", "S", "T", "U", "V", "W", "X", "Y", "Z", "[", "\\", "]", "^", "_",
      Grave, "a", "b", "c", "d", "e", "f", "g", "h", "i", "j", "k", "l", "m", "n", "o",
      "p", "q", "r", "s", "t", "u", "v", "w", "x", "y", "z", "{", "|", "}", "~">>

\* each printable character with its code
CodeOf ==
    [c \in {Printable[k] : k \in 1..Len(Printable)} |->
        31 + CHOOSE k \in 1..Len(Printable) : Printable[k] = c]

\* the code of a printable character, and the character of a code
CharCode(c) == CodeOf[c]
FromCharCode(n) == Printable[n - 31]

\* the identifiers a command line can carry, spelled out
Spellings ==
    { <<>>, <<"p", "r", "o", "j", "e", "c", "t", "I", "d">>,
      <<"b", "i", "l", "l", "i", "n", "g", "A", "c", "c", "o", "u", "n", "t", "I", "d">>,
      <<"e", "n", "a", "b", "l", "e">>,
      <<"p", "1">>,
      <<"p", "1", "-", "1">>,
      <<"s", "c", "h", "e", "d", "-", "p", "r", "o", "j">>,
      <<"b", "1">>,
      <<"n", "u", "l", "l">>,
      <<"a", "\"", "b">>,
      <<"c", "\\", "d">>,
      <<"p", "\"", ",", "\"", "e", "n", "a", "b", "l", "e", "\"", ":", "t", "r", "u", "e", ",", "\"", "x", "\"", ":", "\"">>,
      <<"0", "X", "0", "X", "0", "X", "-", "0", "X", "0", "X", "0", "X", "-", "0", "X", "0", "X", "0", "X">>,
      <<"m", "y", "-", "p", "r", "o", "j", "e", "c", "t", "-", "i", "d">> }

\* each of these strings with its characters
SpellingOf ==
    [text \in {Join(cs) : cs \in Spellings} |-> CHOOSE cs \in Spellings : Join(cs) = text]

\* the characters of the string text
Chars(text) == SpellingOf[text]

RECURSIVE JSONEscape(_)
\* the characters of a JSON string literal: " and \ get a \ in front
JSONEscape(cs) ==
    IF cs = <<>> THEN <<>>
    ELSE (IF Head(cs) \in {"\"", "\\"} THEN <<"\\", Head(cs)>> ELSE <<Head(cs)>>)
             \o JSONEscape(Tail(cs))

\* JSONQuote that leaves the characters as they are
JSONQuoteRaw(cs) == <<"\"">> \o cs \o <<"\"">>

\* JSON.stringify of a string
JSONQuote(cs) == <<"\"">> \o JSONEscape(cs) \o <<"\"">>

NullText == <<"n", "u", "l", "l">>
TrueText == <<"t", "r", "u", "e">>
FalseText == <<"f", "a", "l", "s", "e">>

\* JSON.stringify({projectId, billingAccountId, enable}): a property that is
\* undefined is left out, null is written null, no blanks
JSONStringify(projectId, billingAccountId, enable) ==
    LET Text(v) == IF v = Null THEN NullText ELSE JSONQuote(Chars(v))
        Member(key, v) ==
            IF v = Undefined THEN <<>> ELSE JSONQuote(Chars(key)) \o <<":">> \o Text(v) \o <<",">>
    IN  <<"{">> \o Member("projectId", projectId)
              \o Member("billingAccountId", billingAccountId)
              \o JSONQuote(Chars("enable")) \o <<":">>
              \o (IF enable THEN TrueText ELSE FalseText) \o <<"}">>

\* Buffer.from(text): the bytes of the text in UTF-8, one for each character
\* of printable ASCII
BufferFrom(text) == [k \in 1..Len(text) |-> CharCode(text[k])]

Base64Alphabet ==
    <<"A", "B", "C", "D", "E", "F", "G", "H", "I", "J", "K", "L", "M", "N", "O", "P",
      "Q", "R", "S", "T", "U", "V", "W", "X", "Y", "Z", "a", "b", "c", "d", "e", "f",
      "g", "h", "i", "j", "k", "l", "m", "n", "o", "p", "q", "r", "s", "t", "u", "v",
      "w", "x", "y", "z", "0", "1", "2", "3", "4", "5", "6", "7", "8", "9", "+", "/">>

RECURSIVE ToStringBase64(_)
\* buf.toString('base64'): three bytes make four characters, '=' fills the
\* last group
ToStringBase64(bytes) ==
    IF bytes = <<>> THEN <<>>
    ELSE LET n == Len(bytes)
             bits == bytes[1] * 65536 + (IF n >= 2 THEN bytes[2] * 256 ELSE 0)
                                      + (IF n >= 3 THEN bytes[3] ELSE 0)
         IN  << Base64Alphabet[(bits \div 262144) + 1],
                Base64Alphabet[((bits \div 4096) % 64) + 1],
                IF n >= 2 THEN Base64Alphabet[((bits \div 64) % 64) + 1] ELSE "=",
                IF n >= 3 THEN Base64Alphabet[(bits % 64) + 1] ELSE "=" >>
             \o (IF n > 3 THEN ToStringBase64(SubSeq(bytes, 4, n)) ELSE <<>>)

\* Buffer.from(text).toString('base64')
Base64(text) == ToStringBase64(BufferFrom(text))

\* each character of the base64 alphabet with the six bits it stands for
SextetOf ==
    [c \in {Base64Alphabet[x] : x \in 1..Len(Base64Alphabet)} |->
        (CHOOSE x \in 1..Len(Base64Alphabet) : Base64Alphabet[x] = c) - 1]

RECURSIVE FromBase64(_)
\* the bytes a base64 text stands for: four characters make three bytes,
\* less for each '=' at the end
FromBase64(cs) ==
    IF Len(cs) < 4 THEN <<>>
    ELSE LET Value(k) == IF cs[k] = "=" THEN 0 ELSE SextetOf[cs[k]]
             bits == Value(1) * 262144 + Value(2) * 4096 + Value(3) * 64 + Value(4)
             n == IF cs[3] = "=" THEN 1 ELSE IF cs[4] = "=" THEN 2 ELSE 3
         IN  SubSeq(<<bits \div 65536, (bits \div 256) % 256, bits % 256>>, 1, n)
                 \o FromBase64(SubSeq(cs, 5, Len(cs)))

\* the text of bytes of printable ASCII
TextOf(bytes) == [k \in 1..Len(bytes) |-> FromCharCode(bytes[k])]

\* the HTTP body Cloud Scheduler sends for a job: the bytes its body field
\* encodes
Base64Decode(cs) == TextOf(FromBase64(cs))

\* JSON.parse throws
SyntaxError == [ok |-> FALSE]

RECURSIVE ParseChars(_, _, _)
\* the rest of a string literal from cs[i] on: its characters and the
\* position after its closing quote
ParseChars(cs, i, read) ==
    IF i > Len(cs) THEN SyntaxError
    ELSE IF cs[i] = "\"" THEN [ok |-> TRUE, value |-> read, next |-> i + 1]
    ELSE IF cs[i] = "\\"
    THEN IF i < Len(cs) /\ cs[i + 1] \in {"\"", "\\", "/"}
         THEN ParseChars(cs, i + 2, Append(read, cs[i + 1]))
         ELSE SyntaxError
    ELSE ParseChars(cs, i + 1, Append(read, cs[i]))

\* the text t stands at cs[i]
At(cs, i, t) == i + Len(t) - 1 <= Len(cs) /\ SubSeq(cs, i, i + Len(t) - 1) = t

\* the value at cs[i]: a string, null, true or false
ParseValue(cs, i) ==
    IF At(cs, i, <<"\"">>)
    THEN LET text == ParseChars(cs, i + 1, <<>>)
         IN  IF text.ok THEN [ok |-> TRUE, value |-> Join(text.value), next |-> text.next]
             ELSE SyntaxError
    ELSE IF At(cs, i, NullText) THEN [ok |-> TRUE, value |-> Null, next |-> i + Len(NullText)]
    ELSE IF At(cs, i, TrueText) THEN [ok |-> TRUE, value |-> TRUE, next |-> i + Len(TrueText)]
    ELSE IF At(cs, i, FalseText) THEN [ok |-> TRUE, value |-> FALSE, next |-> i + Len(FalseText)]
    ELSE SyntaxError

RECURSIVE ParseMembers(_, _, _)
\* the members "key":value from cs[i] to the closing brace, added to obj
ParseMembers(cs, i, obj) ==
    IF ~At(cs, i, <<"\"">>) THEN SyntaxError
    ELSE LET key == ParseChars(cs, i + 1, <<>>)
         IN  IF ~key.ok \/ ~At(cs, key.next, <<":">>) THEN SyntaxError
             ELSE LET val == ParseValue(cs, key.next + 1)
                  IN  IF ~val.ok THEN SyntaxError
                      ELSE IF At(cs, val.next, <<"}">>) /\ val.next = Len(cs)
                      THEN [ok |-> TRUE, value |-> (Join(key.value) :> val.value) @@ obj]
                      ELSE IF At(cs, val.next, <<",">>)
                      THEN ParseMembers(cs, val.next + 1, (Join(key.value) :> val.value) @@ obj)
                      ELSE SyntaxError

\* JSON.parse of an object written without blanks whose values are strings,
\* null, true or false
JSONParse(cs) ==
    IF cs = <<"{", "}">> THEN [ok |-> TRUE, value |-> <<>>]
    ELSE IF At(cs, 1, <<"{">>) THEN ParseMembers(cs, 2, <<>>)
    ELSE SyntaxError

\* obj.key, undefined when the object has no such property
Get(obj, key) == IF key \in DOMAIN obj THEN obj[key] ELSE Undefined

\* TimeZoneOf with the zone left out: every job in 'UTC'
TimeZoneOfDefault(options) == "UTC"

\* options.timezone || 'UTC'
TimeZoneOf(options) == IF HasText(options, "timezone") THEN options.timezone ELSE "UTC"

\* the job scheduleOperation builds
Job(fullJobName, schedule, targetProjectId, billingAccountId, enable, options, functionUrl) ==
    [name |-> fullJobName,
     schedule |-> schedule,
     timeZone |-> TimeZoneOf(options),
     httpTarget |-> [uri |-> functionUrl,
                     httpMethod |-> "POST",
                     body |-> Base64(JSONStringify(targetProjectId, billingAccountId, enable)),
                     headers |-> [ContentType |-> "application/json"]]]

\* the catch block of scheduleOperation
Catch(process, error) ==
    [process EXCEPT !.pc = "done",
                    !.caught = Append(@, error),
                    !.out = @ \o HandleApiError(error)]

\* ScheduleOperation with the job put under the project it is about
ScheduleOperationUnderTarget(r, targetProjectId, billingAccountId, enable, options, functionUrl) ==
    LET current == GetCurrentProjectId
        schedule == ScheduleOf(options)
    IN  IF ~current.ok
        THEN /\ cli' = [cli EXCEPT ![r] = Catch([cli[r] EXCEPT !.reads = @ + 1], current.error)]
             /\ UNCHANGED schedulerCalls
        ELSE IF ~schedule.ok
        THEN /\ cli' = [cli EXCEPT ![r] = Catch([cli[r] EXCEPT !.reads = @ + 1], schedule.error)]
             /\ UNCHANGED schedulerCalls
        ELSE LET parent == Parent(targetProjectId)
                 jobName == JobName(enable, targetProjectId, clock)
                 job == Job(parent \o "/jobs/" \o jobName, schedule.value, targetProjectId,
                            billingAccountId, enable, options, functionUrl)
             IN  /\ cli' = [cli EXCEPT ![r].pc = "createJob",
                                       ![r].reads = @ + 1,
                                       ![r].loc = [currentProjectId |-> current.value,
                                                   now |-> clock,
                                                   jobName |-> jobName,
                                                   parent |-> parent,
                                                   job |-> job]]
                 /\ schedulerCalls' = [schedulerCalls EXCEPT ![r] =
                        Append(@, [op |-> "createJob", parent |-> parent, job |-> job])]

\* scheduleOperation from its entry to its first await
ScheduleOperation(r, targetProjectId, billingAccountId, enable, options, functionUrl) ==
    LET current == GetCurrentProjectId
        schedule == ScheduleOf(options)
    IN  IF ~current.ok
        THEN /\ cli' = [cli EXCEPT ![r] = Catch([cli[r] EXCEPT !.reads = @ + 1], current.error)]
             /\ UNCHANGED schedulerCalls
        ELSE IF ~schedule.ok
        THEN /\ cli' = [cli EXCEPT ![r] = Catch([cli[r] EXCEPT !.reads = @ + 1], schedule.error)]
             /\ UNCHANGED schedulerCalls
        ELSE LET parent == Parent(current.value)
                 jobName == JobName(enable, targetProjectId, clock)
                 job == Job(parent \o "/jobs/" \o jobName, schedule.value, targetProjectId,
                            billingAccountId, enable, options, functionUrl)
             IN  /\ cli' = [cli EXCEPT ![r].pc = "createJob",
                                       ![r].reads = @ + 1,
                                       ![r].loc = [currentProjectId |-> current.value,
                                                   now |-> clock,
                                                   jobName |-> jobName,
                                                   parent |-> parent,
                                                   job |-> job]]
                 /\ schedulerCalls' = [schedulerCalls EXCEPT ![r] =
                        Append(@, [op |-> "createJob", parent |-> parent, job |-> job])]

\* ScheduleCommand without the check of BILLING_FUNCTION_URL
ScheduleCommandWithoutUrlCheck(r) ==
    /\ cli[r].pc = "start"
    /\ LET a == cli[r].args
           enable == a.command = "schedule-enable"
       IN  IF ~HasChars(a.options, "time") /\ ~HasChars(a.options, "cron")
           THEN /\ cli' = [cli EXCEPT ![r].pc = "done",
                               ![r].out = @ \o <<ConsoleError("Error: Either --time or --cron must be specified")>>]
                /\ UNCHANGED schedulerCalls
           ELSE ScheduleOperation(r, a.projectId,
                                  IF enable THEN a.billingAccountId ELSE Null,
                                  enable, a.options, a.functionUrl)
    /\ UNCHANGED <<clock, gcloudConfig, faults, schedulerJobs, callbackVars>>

\* the action of the schedule-enable and schedule-disable commands
ScheduleCommand(r) ==
    /\ cli[r].pc = "start"
    /\ cli[r].args.command \in {"schedule-enable", "schedule-disable"}
    /\ LET a == cli[r].args
           enable == a.command = "schedule-enable"
       IN  IF ~HasChars(a.options, "time") /\ ~HasChars(a.options, "cron")
           THEN /\ cli' = [cli EXCEPT ![r].pc = "done",
                               ![r].out = @ \o <<ConsoleError("Error: Either --time or --cron must be specified")>>]
                /\ UNCHANGED schedulerCalls
           ELSE IF Falsy(a.functionUrl)
           THEN /\ cli' = [cli EXCEPT ![r].pc = "done",
                               ![r].out = @ \o <<ConsoleError("Error: BILLING_FUNCTION_URL environment variable is not set"),
                                                 ConsoleLog("export BILLING_FUNCTION_URL=https://your-function-url")>>]
                /\ UNCHANGED schedulerCalls
           ELSE ScheduleOperation(r, a.projectId,
                                  IF enable THEN a.billingAccountId ELSE Null,
                                  enable, a.options, a.functionUrl)
    /\ UNCHANGED <<clock, gcloudConfig, faults, schedulerJobs, callbackVars>>

\* createJob resolves: the service holds the job and returns it; the code
\* prints the details and calls getJob with the returned name
CreateJobReturns(r) ==
    /\ cli[r].pc = "createJob"
    /\ LET job == cli[r].loc.job
           enable == cli[r].args.command = "schedule-enable"
       IN  /\ \A j \in schedulerJobs : j.name # job.name
           /\ schedulerJobs' = schedulerJobs \cup {job}
           /\ cli' = [cli EXCEPT
                  ![r].pc = "getJob",
                  ![r].loc = @ @@ [response |-> job],
                  ![r].out = @ \o
                      <<SpinnerSucceed("Successfully scheduled billing "
                            \o (IF enable THEN "enablement" ELSE "disablement")),
                        ConsoleLog("Job name: " \o job.name),
                        ConsoleLog("Schedule: " \o Join(job.schedule)),
                        ConsoleLog("Timezone: " \o job.timeZone),
                        ConsoleLog("Scheduler project: " \o cli[r].loc.currentProjectId),
                        ConsoleLog("Target project: " \o cli[r].args.projectId)>>]
           /\ schedulerCalls' = [schedulerCalls EXCEPT ![r] =
                  Append(@, [op |-> "getJob", name |-> job.name])]
    /\ UNCHANGED <<clock, gcloudConfig, faults, callbackVars>>

\* the process a remote call of which was rejected with this error
Rejected(process, error) == [process EXCEPT !.rejected = Append(@, error)]

\* CreateJobFails with the error wrapped in one of the command's own
CreateJobFailsWrapped(r) ==
    /\ cli[r].pc = "createJob"
    /\ \E error \in (IF \E j \in schedulerJobs : j.name = cli[r].loc.job.name
                     THEN {AlreadyExists} ELSE faults) :
           cli' = [cli EXCEPT ![r] =
                      Catch(Rejected(cli[r], error),
                            NewError("Failed to schedule: " \o error.message))]
    /\ UNCHANGED <<clock, gcloudConfig, faults, schedulerJobs, schedulerCalls, callbackVars>>

\* createJob rejects: a name the service already holds is always refused
CreateJobFails(r) ==
    /\ cli[r].pc = "createJob"
    /\ \E error \in (IF \E j \in schedulerJobs : j.name = cli[r].loc.job.name
                     THEN {AlreadyExists} ELSE faults) :
           cli' = [cli EXCEPT ![r] = Catch(Rejected(cli[r], error), error)]
    /\ UNCHANGED <<clock, gcloudConfig, faults, schedulerJobs, schedulerCalls, callbackVars>>

\* GetJobReturns with a job that has no next-fire time taken for a failure
GetJobReturnsOrFails(r) ==
    /\ cli[r].pc = "getJob"
    /\ \E nextRun \in {cli[r].loc.response,
                       cli[r].loc.response @@ [scheduleTime |-> [seconds |-> 64800]]} :
           cli' = [cli EXCEPT
               ![r].pc = "done",
               ![r].loc = @ @@ [nextRun |-> nextRun],
               ![r].out = @ \o
                   IF "scheduleTime" \in DOMAIN nextRun
                   THEN <<ConsoleLog("Next run: " \o ToString(nextRun.scheduleTime.seconds * 1000)
                                         \o " " \o TimeZoneOf(cli[r].args.options))>>
                   ELSE HandleApiError(NewError("Next run time not available"))]
    /\ UNCHANGED <<clock, gcloudConfig, faults, schedulerJobs, schedulerCalls, callbackVars>>

\* getJob resolves, with or without a computed next-fire time
GetJobReturns(r) ==
    /\ cli[r].pc = "getJob"
    /\ \E nextRun \in {cli[r].loc.response,
                       cli[r].loc.response @@ [scheduleTime |-> [seconds |-> 64800]]} :
           cli' = [cli EXCEPT
               ![r].pc = "done",
               ![r].loc = @ @@ [nextRun |-> nextRun],
               ![r].out = @ \o
                   <<IF "scheduleTime" \in DOMAIN nextRun
                     THEN ConsoleLog("Next run: " \o ToString(nextRun.scheduleTime.seconds * 1000)
                                         \o " " \o TimeZoneOf(cli[r].args.options))
                     ELSE ConsoleLog("Next run time not available yet. Check Cloud Console for details.")>>]
    /\ UNCHANGED <<clock, gcloudConfig, faults, schedulerJobs, schedulerCalls, callbackVars>>

\* GetJobFails with the job taken back when its next run cannot be read
GetJobFailsRollingBack(r) ==
    /\ cli[r].pc = "getJob"
    /\ \E error \in faults : cli' = [cli EXCEPT ![r] = Catch(Rejected(cli[r], error), error)]
    /\ schedulerJobs' = schedulerJobs \ {cli[r].loc.response}
    /\ schedulerCalls' = [schedulerCalls EXCEPT ![r] =
           Append(@, [op |-> "deleteJob", name |-> cli[r].loc.response.name])]
    /\ UNCHANGED <<clock, gcloudConfig, faults, callbackVars>>

\* getJob rejects
GetJobFails(r) ==
    /\ cli[r].pc = "getJob"
    /\ \E error \in faults : cli' = [cli EXCEPT ![r] = Catch(Rejected(cli[r], error), error)]
    /\ UNCHANGED <<clock, gcloudConfig, faults, schedulerJobs, schedulerCalls, callbackVars>>

\* a millisecond passes
Tick ==
    /\ clock < MaxClock
    /\ clock' = clock + 1
    /\ UNCHANGED <<gcloudConfig, faults, cli, schedulerJobs, schedulerCalls, callbackVars>>

NextCli ==
    \/ \E r \in Runs : ScheduleCommand(r)
    \/ \E r \in Runs : CreateJobReturns(r)
    \/ \E r \in Runs : CreateJobFails(r)
    \/ \E r \in Runs : GetJobReturns(r)
    \/ \E r \in Runs : GetJobFails(r)
    \/ Tick

-----------------------------------------------------------------------------
(* setBillingStatus, the enable and disable commands *)

\* the caller of an update that is not an invocation of the callback but the
\* CLI process r
Direct(r) == 0 - r

\* SetBillingStatusRequest with the identifier of the account for its name
SetBillingStatusRequestBare(projectId, billingAccountId, enable) ==
    LET billingAccountName == IF ~Falsy(billingAccountId) THEN billingAccountId ELSE ""
    IN  [name |-> "projects/" \o projectId,
         projectBillingInfo |-> [billingAccountName |-> IF enable THEN billingAccountName ELSE "",
                                 billingEnabled |-> enable]]

\* the request setBillingStatus sends to updateProjectBillingInfo
SetBillingStatusRequest(projectId, billingAccountId, enable) ==
    LET billingAccountName ==
            IF ~Falsy(billingAccountId) THEN "billingAccounts/" \o billingAccountId ELSE ""
    IN  [name |-> "projects/" \o projectId,
         projectBillingInfo |-> [billingAccountName |-> IF enable THEN billingAccountName ELSE "",
                                 billingEnabled |-> enable]]

\* the arguments the enable and disable commands call setBillingStatus with
SetBillingStatusArgs(args) ==
    [projectId |-> args.projectId,
     billingAccountId |-> IF args.command = "enable" THEN args.billingAccountId ELSE Null,
     enable |-> args.command = "enable"]

\* setBillingStatus from its entry to its await
SetBillingStatus(r) ==
    /\ cli[r].pc = "start"
    /\ cli[r].args.command \in {"enable", "disable"}
    /\ LET a == SetBillingStatusArgs(cli[r].args)
       IN  billingCalls' = Append(billingCalls,
               [inv |-> Direct(r),
                request |-> SetBillingStatusRequest(a.projectId, a.billingAccountId, a.enable)])
    /\ cli' = [cli EXCEPT ![r].pc = "updateProjectBillingInfo"]
    /\ UNCHANGED <<clock, gcloudConfig, faults, schedulerJobs, schedulerCalls,
                   inv, billingInfo, billingApplied>>

\* the request of the last call made for this caller
RequestOf(caller) ==
    (CHOOSE c \in {billingCalls[k] : k \in 1..Len(billingCalls)} : c.inv = caller).request

\* updateProjectBillingInfo resolves: Cloud Billing has applied the update
\* and the command prints its success
SetBillingStatusReturns(r) ==
    /\ cli[r].pc = "updateProjectBillingInfo"
    /\ RequestOf(Direct(r)).name \in DOMAIN billingInfo
    /\ billingInfo' = [billingInfo EXCEPT
                           ![RequestOf(Direct(r)).name] = RequestOf(Direct(r)).projectBillingInfo]
    /\ billingApplied' = Append(billingApplied, Direct(r))
    /\ LET a == SetBillingStatusArgs(cli[r].args)
       IN  cli' = [cli EXCEPT
               ![r].pc = "done",
               ![r].out = @ \o
                   <<SpinnerSucceed("Successfully " \o (IF a.enable THEN "enabled" ELSE "disabled")
                                        \o " billing for project " \o a.projectId)>>
                   \o (IF a.enable
                       THEN <<ConsoleLog("Billing account " \o a.billingAccountId
                                             \o " has been linked to the project")>>
                       ELSE <<>>)]
    /\ UNCHANGED <<clock, gcloudConfig, faults, schedulerJobs, schedulerCalls, inv, billingCalls>>

\* updateProjectBillingInfo rejects: a project Cloud Billing does not know
\* is always refused
SetBillingStatusFails(r) ==
    /\ cli[r].pc = "updateProjectBillingInfo"
    /\ \E error \in (IF RequestOf(Direct(r)).name \in DOMAIN billingInfo
                     THEN faults
                     ELSE {[code |-> NOT_FOUND, message |-> "Requested entity was not found"]}) :
           cli' = [cli EXCEPT ![r] = Catch(Rejected(cli[r], error), error)]
    /\ UNCHANGED <<clock, gcloudConfig, faults, schedulerJobs, schedulerCalls, callbackVars>>

NextDirect ==
    \/ \E r \in Runs : SetBillingStatus(r)
    \/ \E r \in Runs : SetBillingStatusReturns(r)
    \/ \E r \in Runs : SetBillingStatusFails(r)

-----------------------------------------------------------------------------
(* manageBilling, the callback *)

\* res.status(status).json(body) or .send(body)
Respond(i, headers, status, body) ==
    inv' = [inv EXCEPT ![i].pc = "done",
                       ![i].res = [headers |-> @.headers @@ headers,
                                   sent |-> Append(@.sent, [status |-> status, body |-> body])]]

Cors == ("Access-Control-Allow-Origin" :> "*")

\* Validate without the check of the billing account
ValidateProjectOnly(body) ==
    IF Falsy(body.projectId) THEN "Project ID is required" ELSE ""

\* the checks of the body: the message of the 400 answer, "" when it passes
Validate(body) ==
    IF Falsy(body.projectId) THEN "Project ID is required"
    ELSE IF body.enable /\ Falsy(body.billingAccountId)
    THEN "Billing Account ID is required when enabling billing"
    ELSE ""

\* UpdateRequest with billingAccountName: billingAccountName, whatever enable is
UpdateRequestKeepingAccount(projectId, billingAccountId, enable) ==
    LET billingAccountName ==
            IF ~Falsy(billingAccountId) THEN "billingAccounts/" \o billingAccountId ELSE ""
    IN  [name |-> "projects/" \o projectId,
         projectBillingInfo |-> [billingAccountName |-> billingAccountName,
                                 billingEnabled |-> enable]]

\* UpdateRequest with the bare identifier for billingAccountName
UpdateRequestBareAccount(projectId, billingAccountId, enable) ==
    LET billingAccountName == IF ~Falsy(billingAccountId) THEN billingAccountId ELSE ""
    IN  [name |-> "projects/" \o projectId,
         projectBillingInfo |-> [billingAccountName |-> IF enable THEN billingAccountName ELSE "",
                                 billingEnabled |-> enable]]

\* the request handed to updateProjectBillingInfo
UpdateRequest(projectId, billingAccountId, enable) ==
    LET billingAccountName ==
            IF ~Falsy(billingAccountId) THEN "billingAccounts/" \o billingAccountId ELSE ""
    IN  [name |-> "projects/" \o projectId,
         projectBillingInfo |-> [billingAccountName |-> IF enable THEN billingAccountName ELSE "",
                                 billingEnabled |-> enable]]

\* ErrorResponse with the not-found error taken for a success
ErrorResponseNotFoundAccepted(error) ==
    IF HasCode(error, PERMISSION_DENIED)
    THEN [status |-> 403,
          body |-> [error |-> "Permission denied",
                    message |-> "The caller does not have required permissions",
                    details |-> error.message]]
    ELSE IF HasCode(error, NOT_FOUND)
    THEN [status |-> 200,
          body |-> [error |-> "Not found",
                    message |-> "The specified project or billing account was not found",
                    details |-> error.message]]
    ELSE [status |-> 500,
          body |-> [error |-> "Internal error",
                    message |-> "Failed to update billing",
                    details |-> error.message]]

\* ErrorResponse with a status of its own, 401, for code 16
ErrorResponseUnauthenticated(error) ==
    IF HasCode(error, PERMISSION_DENIED)
    THEN [status |-> 403,
          body |-> [error |-> "Permission denied",
                    message |-> "The caller does not have required permissions",
                    details |-> error.message]]
    ELSE IF HasCode(error, NOT_FOUND)
    THEN [status |-> 404,
          body |-> [error |-> "Not found",
                    message |-> "The specified project or billing account was not found",
                    details |-> error.message]]
    ELSE IF HasCode(error, UNAUTHENTICATED)
    THEN [status |-> 401,
          body |-> [error |-> "Unauthenticated",
                    message |-> "Authentication failed",
                    details |-> error.message]]
    ELSE [status |-> 500,
          body |-> [error |-> "Internal error",
                    message |-> "Failed to update billing",
                    details |-> error.message]]

\* the catch block of manageBilling: status and body for an error
ErrorResponse(error) ==
    IF HasCode(error, PERMISSION_DENIED)
    THEN [status |-> 403,
          body |-> [error |-> "Permission denied",
                    message |-> "The caller does not have required permissions",
                    details |-> error.message]]
    ELSE IF HasCode(error, NOT_FOUND)
    THEN [status |-> 404,
          body |-> [error |-> "Not found",
                    message |-> "The specified project or billing account was not found",
                    details |-> error.message]]
    ELSE [status |-> 500,
          body |-> [error |-> "Internal error",
                    message |-> "Failed to update billing",
                    details |-> error.message]]

\* Admitted with one invocation at a time let through to the billing service
AdmittedOneAtATime(i) ==
    inv[i].pc = "received" /\ \A j \in Invocations : inv[j].pc # "awaiting"

\* the request of invocation i is handed to manageBilling as soon as it is
\* received, whatever the other invocations are doing
Admitted(i) == inv[i].pc = "received"

\* the headers of the answer to a preflight, besides Cors
Preflight ==
    ("Access-Control-Allow-Methods" :> "POST") @@ ("Access-Control-Allow-Headers" :> "Content-Type")

MethodNotAllowed ==
    [answered |-> TRUE, headers |-> <<>>, status |-> 405,
     body |-> [error |-> "Method not allowed", message |-> "Only POST requests are accepted"]]

InvalidContentType ==
    [answered |-> TRUE, headers |-> <<>>, status |-> 400,
     body |-> [error |-> "Invalid content type",
               message |-> "Content-Type must be application/json"]]

PreflightAnswer == [answered |-> TRUE, headers |-> Preflight, status |-> 204, body |-> ""]

\* Verify with the content type looked at before the method
VerifyContentTypeFirst(req) ==
    IF req.method = "OPTIONS" THEN PreflightAnswer
    ELSE IF req.contentType # "application/json" THEN InvalidContentType
    ELSE IF req.method # "POST" THEN MethodNotAllowed
    ELSE [answered |-> FALSE]

\* Verify without the check of the content type
VerifyMethodOnly(req) ==
    IF req.method = "OPTIONS" THEN PreflightAnswer
    ELSE IF req.method # "POST" THEN MethodNotAllowed
    ELSE [answered |-> FALSE]

\* Verify with the preflight looked for after the other checks
VerifyPreflightLast(req) ==
    IF req.method # "POST" /\ req.method # "OPTIONS" THEN MethodNotAllowed
    ELSE IF req.contentType # "application/json" THEN InvalidContentType
    ELSE IF req.method = "OPTIONS" THEN PreflightAnswer
    ELSE [answered |-> FALSE]

\* the checks before the body is read: the preflight, "Verify request
\* method", "Verify content type"; the answer of the first that returns
Verify(req) ==
    IF req.method = "OPTIONS" THEN PreflightAnswer
    ELSE IF req.method # "POST" THEN MethodNotAllowed
    ELSE IF req.contentType # "application/json" THEN InvalidContentType
    ELSE [answered |-> FALSE]

\* manageBilling from its entry to its response or to its await
ManageBilling(i) ==
    /\ Admitted(i)
    /\ LET req == inv[i].req
           early == Verify(req)
           invalid == Validate(req.body)
       IN  IF early.answered
           THEN /\ Respond(i, Cors @@ early.headers, early.status, early.body)
                /\ UNCHANGED billingCalls
           ELSE IF invalid # ""
           THEN /\ Respond(i, Cors, 400, [error |-> "Missing parameter", message |-> invalid])
                /\ UNCHANGED billingCalls
           ELSE /\ inv' = [inv EXCEPT ![i].pc = "awaiting", ![i].res.headers = Cors]
                /\ billingCalls' = Append(billingCalls,
                       [inv |-> i,
                        request |-> UpdateRequest(req.body.projectId,
                                                  req.body.billingAccountId,
                                                  req.body.enable)])
    /\ UNCHANGED <<cliVars, billingInfo, billingApplied>>

\* the request invocation i is waiting on
PendingRequest(i) ==
    (CHOOSE c \in {billingCalls[k] : k \in 1..Len(billingCalls)} : c.inv = i).request

\* updateProjectBillingInfo resolves: Cloud Billing has applied the update
\* and the callback answers 200
UpdateReturns(i) ==
    /\ inv[i].pc = "awaiting"
    /\ PendingRequest(i).name \in DOMAIN billingInfo
    /\ billingInfo' = [billingInfo EXCEPT
                           ![PendingRequest(i).name] = PendingRequest(i).projectBillingInfo]
    /\ billingApplied' = Append(billingApplied, i)
    /\ LET body == inv[i].req.body
       IN  Respond(i, <<>>, 200,
                   [success |-> TRUE,
                    message |-> "Successfully " \o (IF body.enable THEN "enabled" ELSE "disabled")
                                    \o " billing for project " \o body.projectId,
                    projectId |-> body.projectId,
                    billingAccountId |-> IF Falsy(body.billingAccountId)
                                         THEN "None" ELSE body.billingAccountId,
                    enable |-> body.enable])
    /\ UNCHANGED <<cliVars, billingCalls>>

\* UpdateFails with a catch block that sends nothing
UpdateFailsUnanswered(i) ==
    /\ inv[i].pc = "awaiting"
    /\ \E error \in (IF PendingRequest(i).name \in DOMAIN billingInfo
                     THEN faults
                     ELSE {[code |-> NOT_FOUND, message |-> "Requested entity was not found"]}) :
           inv' = [inv EXCEPT ![i].pc = "done", ![i].caught = <<error>>]
    /\ UNCHANGED <<cliVars, billingInfo, billingCalls, billingApplied>>

\* updateProjectBillingInfo rejects: a project Cloud Billing does not know
\* is always refused
UpdateFails(i) ==
    /\ inv[i].pc = "awaiting"
    /\ \E error \in (IF PendingRequest(i).name \in DOMAIN billingInfo
                     THEN faults
                     ELSE {[code |-> NOT_FOUND, message |-> "Requested entity was not found"]}) :
           inv' = [inv EXCEPT
               ![i].pc = "done",
               ![i].caught = <<error>>,
               ![i].res.sent = Append(@, [status |-> ErrorResponse(error).status,
                                          body |-> ErrorResponse(error).body])]
    /\ UNCHANGED <<cliVars, billingInfo, billingCalls, billingApplied>>

NextCallback ==
    \/ \E i \in Invocations : ManageBilling(i)
    \/ \E i \in Invocations : UpdateReturns(i)
    \/ \E i \in Invocations : UpdateFails(i)

-----------------------------------------------------------------------------
(* Cloud Scheduler fires a registered job *)

\* the request Cloud Scheduler sends for a job: the method, the Content-Type
\* header and the body of its httpTarget, the body taken out of base64 and,
\* being sent as application/json, parsed into req.body
FiredRequest(job) ==
    LET parsed == JSONParse(Base64Decode(job.httpTarget.body))
    IN  [method |-> job.httpTarget.httpMethod,
         contentType |-> job.httpTarget.headers.ContentType,
         body |-> [projectId |-> Get(parsed.value, "projectId"),
                   billingAccountId |-> Get(parsed.value, "billingAccountId"),
                   enable |-> Get(parsed.value, "enable")]]

\* the time of a job has come: the callback receives its request; a job stays
\* registered and fires again. A body that is not JSON does not reach
\* manageBilling.
FireJob(i) ==
    /\ inv[i].pc = "idle"
    /\ \E job \in schedulerJobs :
           /\ JSONParse(Base64Decode(job.httpTarget.body)).ok
           /\ inv' = [inv EXCEPT ![i] = [pc |-> "received", req |-> FiredRequest(job),
                                         res |-> [headers |-> <<>>, sent |-> <<>>],
                                         caught |-> <<>>]]
    /\ UNCHANGED <<cliVars, billingInfo, billingCalls, billingApplied>>

NextScheduler == \E i \in Invocations : FireJob(i)

-----------------------------------------------------------------------------
(* The command lines a CLI process is started with *)

Digit(d) == <<"0", "1", "2", "3", "4", "5", "6", "7", "8", "9">>[d + 1]

\* the number n < 100 as typed: two digits, or one when it has one and is not padded
Field(n, padded) ==
    IF n < 10 /\ ~padded THEN <<Digit(n)>> ELSE <<Digit(n \div 10), Digit(n % 10)>>

\* hour h and minute m typed as a --time value
TimeText(h, m, hPadded, mPadded) == Field(h, hPadded) \o <<":">> \o Field(m, mPadded)

Hours == 0..23
Minutes == 0..59

\* every way to type a time of day as HH:MM
WellFormedTimes ==
    {TimeText(h, m, hp, mp) : h \in Hours, m \in Minutes, hp \in BOOLEAN, mp \in BOOLEAN}

\* --time values that are no time of day
MalformedTimes ==
    { <<"2", "5", ":", "0", "0">>,        \* hour out of range
      <<"1", "2", ":", "6", "0">>,        \* minute out of range
      <<"9", "9", ":", "9", "9">>,
      <<"a", "b", ":", "c", "d">>,        \* not numbers
      <<"1", "2", ":", "x", "0">>,
      <<"-", "1", ":", "0", "0">>,
      <<"0", "9", "0", "0">>,             \* no separator
      <<"9">>,
      <<"1", "2", ":">>,                  \* a part missing
      <<":", "3", "0">>,
      <<":">> }

SampleTimes ==
    { <<"0", "9", ":", "0", "0">>, <<"1", "8", ":", "3", "0">>, <<"9", ":", "5">>,
      <<"2", "5", ":", "6", "1">>, <<"0", "9", "0", "0">>, <<"a", "b", ":", "c", "d">> }

Weekdays18 == <<"0", " ", "1", "8", " ", "*", " ", "*", " ", "1", "-", "5">>

SampleCrons ==
    { Weekdays18,                                                  \* 0 18 * * 1-5
      <<" ", "0", " ", "9", " ", "*", " ", "*", " ", "1", " ">>,   \* blanks around
      <<"0", "9", ":", "0", "0">>,                                 \* no cron expression
      <<"*">>,
      <<>> }

\* --timezone values; "UTC" is also what commander puts there when the option
\* is not given
SampleZones == {"UTC", "America/Los_Angeles", "america/los_angeles ", ""}

SchedProj == <<"s", "c", "h", "e", "d", "-", "p", "r", "o", "j">>

FunctionUrl == "https://us-central1-sched-proj.cloudfunctions.net/manageBilling"

\* commander's options object: a key is there when the option was given;
\* --timezone has a default and is always there
OptionsOf(times, crons, zones) ==
    { t @@ c @@ z : t \in {<<>>} \cup {[time |-> x] : x \in times},
                    c \in {<<>>} \cup {[cron |-> x] : x \in crons},
                    z \in {[timezone |-> x] : x \in zones} }

\* schedule-enable <projectId> <billingAccountId>, schedule-disable <projectId>
CommandsOf(projects, accounts, options, urls) ==
    [command : {"schedule-enable"}, projectId : projects, billingAccountId : accounts,
     options : options, functionUrl : urls]
    \cup
    [command : {"schedule-disable"}, projectId : projects, billingAccountId : {Undefined},
     options : options, functionUrl : urls]

\* the configuration file: unreadable, without a project line, or with one
ConfigsOf(projects) ==
    {[readable |-> FALSE], [readable |-> TRUE]}
    \cup {[readable |-> TRUE, project |-> p] : p \in projects}

\* a process: its position, arguments, locals and console output, the number
\* of times it has read the gcloud configuration, the errors the remote
\* services answered it with and the errors it handed to handleApiError
NewProcess(args) ==
    [pc |-> "start", args |-> args, loc |-> <<>>, out |-> <<>>,
     reads |-> 0, rejected |-> <<>>, caught |-> <<>>]
IdleProcess ==
    [pc |-> "idle", args |-> <<>>, loc |-> <<>>, out |-> <<>>,
     reads |-> 0, rejected |-> <<>>, caught |-> <<>>]

NewInvocation(req) ==
    [pc |-> "received", req |-> req, res |-> [headers |-> <<>>, sent |-> <<>>], caught |-> <<>>]
IdleInvocation == [pc |-> "idle"]

NoBilling == [billingAccountName |-> "", billingEnabled |-> FALSE]

\* the projects Cloud Billing knows, by resource name
BillingProjects == {"projects/p1", "projects/p2"}

Linked == [billingAccountName |-> "billingAccounts/b0", billingEnabled |-> TRUE]

Unavailable == [code |-> 14, message |-> "The service is currently unavailable"]

\* the processes `started` are launched with command lines of `commands`
InitCliPart(started, commands, configs) ==
    /\ clock = 0
    /\ gcloudConfig \in configs
    /\ \E f \in [started -> commands] :
           cli = [r \in Runs |-> IF r \in started THEN NewProcess(f[r]) ELSE IdleProcess]
    /\ schedulerJobs = {}
    /\ schedulerCalls = [r \in Runs |-> <<>>]

\* the invocations `started` have received requests of `requests`
InitCallbackPart(started, requests, billings) ==
    /\ \E f \in [started -> requests] :
           inv = [i \in Invocations |->
                     IF i \in started THEN NewInvocation(f[i]) ELSE IdleInvocation]
    /\ billingInfo \in [BillingProjects -> billings]
    /\ billingCalls = <<>>
    /\ billingApplied = <<>>

\* schedule commands alone
InitCli(started, commands, configs, errors) ==
    /\ InitCliPart(started, commands, configs)
    /\ faults = errors
    /\ InitCallbackPart({}, {}, {NoBilling})

\* callback invocations alone
InitCallback(started, requests, billings, errors) ==
    /\ InitCliPart({}, {}, {[readable |-> FALSE]})
    /\ faults = errors
    /\ InitCallbackPart(started, requests, billings)

\* one schedule command, any command line
InitSchedule ==
    InitCli({1},
            CommandsOf({"p1", "sched-proj"}, {"b1", ""},
                       OptionsOf(SampleTimes, SampleCrons, SampleZones),
                       {FunctionUrl, Undefined}),
            ConfigsOf({SchedProj, <<" ">> \o SchedProj \o <<" ">>, <<" ">>}),
            ApiErrors)

SpecSchedule == InitSchedule /\ [][NextCli]_vars

\* one schedule command with --time, any text for the time
InitTime ==
    InitCli({1},
            CommandsOf({"p1"}, {"b1"},
                       {o \in OptionsOf(WellFormedTimes \cup MalformedTimes, {}, {"UTC"}) :
                            "time" \in DOMAIN o},
                       {FunctionUrl}),
            {[readable |-> TRUE, project |-> SchedProj]},
            {Unavailable})

SpecTime == InitTime /\ [][NextCli]_vars

\* schedule commands run side by side
InitTwice ==
    InitCli(Runs,
            {c \in CommandsOf({"p1", "p1-1"}, {"b1"},
                              OptionsOf({}, {Weekdays18}, {"UTC"}) \ {[timezone |-> "UTC"]},
                              {FunctionUrl}) :
                 c.command = "schedule-enable" \/ c.projectId = "p1"},
            {[readable |-> TRUE, project |-> SchedProj]},
            {Unavailable})

SpecTwice == InitTwice /\ [][NextCli]_vars

\* one schedule command, any identifiers, also ones with the characters of
\* JSON in them
InitPayload ==
    InitCli({1},
            CommandsOf({Join(cs) : cs \in Spellings}, {Join(cs) : cs \in Spellings},
                       OptionsOf({}, {Weekdays18}, {"UTC"}) \ {[timezone |-> "UTC"]},
                       {FunctionUrl}),
            {[readable |-> TRUE, project |-> p] : p \in {SchedProj, <<" ">> \o SchedProj \o <<" ">>}},
            {Unavailable})

SpecPayload == InitPayload /\ [][NextCli]_vars

\* the requests the callback can receive
RequestsOf(methods, contentTypes, bodies) ==
    [method : methods, contentType : contentTypes, body : bodies]

BodiesOf(projects, accounts) ==
    [projectId : projects, billingAccountId : accounts, enable : BOOLEAN]

\* one invocation, any request
InitOneCallback ==
    InitCallback({1},
                 RequestsOf({"POST", "OPTIONS", "GET", "PUT"},
                            {"application/json", "application/json; charset=utf-8",
                             "text/plain", Undefined},
                            BodiesOf({Undefined, Null, "", "p1", "p3"},
                                     {Undefined, Null, "", "b1"})),
                 {NoBilling, Linked},
                 ApiErrors)

SpecCallback == InitOneCallback /\ [][NextCallback]_vars

\* the requests of the invocations that run to their end side by side: one
\* for each return of manageBilling
LiveRequests ==
    RequestsOf({"OPTIONS", "GET"}, {"text/plain"}, BodiesOf({Undefined}, {Undefined}))
        \cup RequestsOf({"POST"}, {"text/plain"}, BodiesOf({"p1"}, {"b1"}))
        \cup RequestsOf({"POST"}, {"application/json"},
                        BodiesOf({Undefined, "p1", "p3"}, {Undefined, "b1"}))

InitLive ==
    InitCallback(Invocations, LiveRequests, {NoBilling},
                 {Unavailable, [code |-> PERMISSION_DENIED, message |-> "Permission denied"]})

\* an async function that was called runs to its return or to its await, and
\* the promise of updateProjectBillingInfo settles: it resolves or it rejects
Fairness ==
    \A i \in Invocations :
        /\ WF_vars(ManageBilling(i))
        /\ WF_vars(UpdateReturns(i) \/ UpdateFails(i))

SpecLive == InitLive /\ [][NextCallback]_vars /\ Fairness

\* invocations side by side, each fired with a payload that passes the checks
InitRace ==
    InitCallback(Invocations,
                 RequestsOf({"POST"}, {"application/json"},
                            {b \in BodiesOf({"p1", "p2"}, {Null, "b1"}) : Validate(b) = ""}),
                 {NoBilling},
                 {Unavailable})

SpecRace == InitRace /\ [][NextCallback]_vars

\* enable <projectId> <billingAccountId>, disable <projectId>
DirectCommandsOf(projects, accounts) ==
    [command : {"enable"}, projectId : projects, billingAccountId : accounts]
    \cup [command : {"disable"}, projectId : projects]

\* one enable or disable command, and one invocation of the callback with a
\* payload of its own
InitDirect ==
    /\ InitCliPart({1}, DirectCommandsOf({"", "p1", "p3"}, {"", "b1", "b2"}),
                   {[readable |-> FALSE]})
    /\ faults = {Unavailable}
    /\ InitCallbackPart({1},
                        RequestsOf({"POST"}, {"application/json"},
                                   BodiesOf({"", "p1", "p3"}, {Undefined, Null, "", "b1", "b2"})),
                        {NoBilling, Linked})

SpecDirect == InitDirect /\ [][NextDirect \/ NextCallback]_vars

\* one schedule command, then the firings of its job
InitFire ==
    /\ InitCliPart({1},
                   CommandsOf({"", "p1", "my-project-id"}, {"b1", ""},
                              OptionsOf({}, {Weekdays18}, {"UTC"}) \ {[timezone |-> "UTC"]},
                              {FunctionUrl}),
                   {[readable |-> TRUE, project |-> SchedProj]})
    /\ faults = {Unavailable}
    /\ InitCallbackPart({}, {}, {NoBilling})

NextFire == NextCli \/ NextScheduler \/ NextCallback

SpecFire == InitFire /\ [][NextFire]_vars

-----------------------------------------------------------------------------
(* The whole: the schedule commands and the callback *)

\* one schedule command and one callback invocation
Init ==
    /\ InitCliPart({1},
                   CommandsOf({"p1"}, {"b1"},
                              {o \in OptionsOf({<<"0", "9", ":", "0", "0">>}, {Weekdays18}, {"UTC"}) :
                                   DOMAIN o # {"timezone"}},
                              {FunctionUrl}),
                   {[readable |-> TRUE, project |-> SchedProj]})
    /\ faults = {Unavailable}
    /\ InitCallbackPart({1},
                        RequestsOf({"POST"}, {"application/json"},
                                   BodiesOf({"p1"}, {Null, "b1"})),
                        {NoBilling})

Next == NextCli \/ NextDirect \/ NextScheduler \/ NextCallback

Spec == Init /\ [][Next]_vars

-----------------------------------------------------------------------------
(* What the claims speak of *)

\* the process r has run the action of its command
Ran(r) == cli[r].pc \in {"createJob", "getJob", "done"}

\* the positions in schedulerCalls of the calls `op` of process r
CallsOf(r, op) == {k \in 1..Len(schedulerCalls[r]) : schedulerCalls[r][k].op = op}

\* the command line gives --time and no --cron, --cron and no --time, or both
TimeOnly(options) == HasChars(options, "time") /\ "cron" \notin DOMAIN options
CronOnly(options) == HasChars(options, "cron") /\ "time" \notin DOMAIN options
TimeAndCron(options) == HasChars(options, "time") /\ HasChars(options, "cron")

\* nothing but the time source keeps the command from registering a job
CanRegister(r) == ~Falsy(cli[r].args.functionUrl) /\ GetCurrentProjectId.ok

EveryDay == <<" ", "*", " ", "*", " ", "*">>

\* each way to type a time of day, with the schedule "MM HH * * *" whose
\* fields are typed the same way
SchedulesAsTyped ==
    { <<TimeText(h, m, hp, mp), Field(m, mp) \o <<" ">> \o Field(h, hp) \o EveryDay>> :
          h \in Hours, m \in Minutes, hp \in BOOLEAN, mp \in BOOLEAN }

\* each way to type a time of day, with the schedule "M H * * *" whose
\* fields are the minute and the hour as numbers
SchedulesAsNumbers ==
    { <<TimeText(h, m, hp, mp), Field(m, FALSE) \o <<" ">> \o Field(h, FALSE) \o EveryDay>> :
          h \in Hours, m \in Minutes, hp \in BOOLEAN, mp \in BOOLEAN }

\* process r made exactly one createJob call, for a job with this schedule
RegistersSchedule(r, schedule) ==
    /\ Cardinality(CallsOf(r, "createJob")) = 1
    /\ \A k \in CallsOf(r, "createJob") : schedulerCalls[r][k].job.schedule = schedule

\* process r made exactly one createJob call, for a job whose schedule is
\* the one `table` gives for the --time of r
RegistersScheduleOf(r, table) ==
    /\ Cardinality(CallsOf(r, "createJob")) = 1
    /\ \A k \in CallsOf(r, "createJob") :
           <<cli[r].args.options.time, schedulerCalls[r][k].job.schedule>> \in table

C2_TimeAndCronRejected ==
    \A r \in Runs :
        Ran(r) /\ TimeAndCron(cli[r].args.options)
        => /\ cli[r].pc = "done"
           /\ CallsOf(r, "createJob") = {}
           /\ CallsOf(r, "getJob") = {}

\* C3 as stated: a --time that is no time of day fails and createJob is
\* never called with a schedule made from it.
C3_MalformedTimeRejected ==
    \A r \in Runs :
        Ran(r) /\ TimeOnly(cli[r].args.options)
               /\ cli[r].args.options.time \notin WellFormedTimes
        => /\ cli[r].pc = "done"
           /\ CallsOf(r, "createJob") = {}

\* C10: for every expression given with --cron as the only time source, the
\* schedule of the job handed to createJob is that expression, character for
\* character.
C10_CronVerbatim ==
    \A r \in Runs :
        Ran(r) /\ CronOnly(cli[r].args.options) /\ CanRegister(r)
        => RegistersSchedule(r, cli[r].args.options.cron)

\* C10, a case: an expression with blanks around it was handed on as it is
C10_Witness ==
    \E r \in Runs :
        /\ Ran(r) /\ CronOnly(cli[r].args.options)
        /\ cli[r].args.options.cron # Trim(cli[r].args.options.cron)
        /\ RegistersSchedule(r, cli[r].args.options.cron)

\* the process r has computed the identity of its job
Named(r) == Ran(r) /\ "jobName" \in DOMAIN cli[r].loc

\* the processes r1 and r2 run the same command for the same project
SameCommand(r1, r2) ==
    /\ cli[r1].args.command = cli[r2].args.command
    /\ cli[r1].args.projectId = cli[r2].args.projectId

\* C8 (as amended): two schedule commands compute the same job identity
\* billing-{action}-{targetProjectId}-{Date.now()} exactly when they have the
\* same action, the same target project and read the same millisecond from
\* the clock; in every other case the identities differ.
C8_SameIdentityOnlyInSameMillisecond ==
    \A r1, r2 \in Runs :
        r1 # r2 /\ Named(r1) /\ Named(r2)
        => (cli[r1].loc.jobName = cli[r2].loc.jobName
              <=> SameCommand(r1, r2) /\ cli[r1].loc.now = cli[r2].loc.now)

\* C8, a case: the same command ran twice and registered two jobs
C8_Witness ==
    \E r1, r2 \in Runs :
        /\ r1 # r2 /\ SameCommand(r1, r2)
        /\ cli[r1].pc \in {"getJob", "done"} /\ "response" \in DOMAIN cli[r1].loc
        /\ cli[r2].pc \in {"getJob", "done"} /\ "response" \in DOMAIN cli[r2].loc
        /\ cli[r1].loc.jobName # cli[r2].loc.jobName
        /\ {cli[r1].loc.job, cli[r2].loc.job} \subseteq schedulerJobs

\* C8 as stated: every two schedule commands carry distinct job identities,
\* also for the same project and the same action.
C8_IdentitiesDistinct ==
    \A r1, r2 \in Runs :
        r1 # r2 /\ Named(r1) /\ Named(r2) => cli[r1].loc.jobName # cli[r2].loc.jobName

-----------------------------------------------------------------------------
(* The callback *)

\* the positions in billingCalls of the requests of invocation i
BillingCallsOf(i) == {k \in 1..Len(billingCalls) : billingCalls[k].inv = i}

\* invocation i is past the checks of the method and of the content type
PassedChecks(i) ==
    /\ inv[i].pc \in {"awaiting", "done"}
    /\ inv[i].req.method = "POST"
    /\ inv[i].req.contentType = "application/json"

\* the value is no identifier: missing, null or empty
NoIdentifier(v) == v \in {Undefined, Null, ""}

\* invocation i has answered, once, with this status
Answered(i, status) ==
    /\ inv[i].pc = "done"
    /\ Len(inv[i].res.sent) = 1
    /\ inv[i].res.sent[1].status = status

\* invocation i made exactly one call to the billing service, with this request
Updates(i, request) ==
    /\ Cardinality(BillingCallsOf(i)) = 1
    /\ \A k \in BillingCallsOf(i) : billingCalls[k].request = request

\* C4: an invocation past the method and content-type checks whose body has
\* no project identifier, or has enable = true and no billing account
\* identifier, answers 400 and never calls updateProjectBillingInfo.
C4_InvalidBodyRejected ==
    \A i \in Invocations :
        PassedChecks(i)
        /\ (NoIdentifier(inv[i].req.body.projectId)
            \/ (inv[i].req.body.enable /\ NoIdentifier(inv[i].req.body.billingAccountId)))
        => Answered(i, 400) /\ BillingCallsOf(i) = {}

\* C4, a case: enabling with a null billing account was answered 400
C4_Witness ==
    \E i \in Invocations :
        /\ PassedChecks(i)
        /\ inv[i].req.body = [projectId |-> "p1", billingAccountId |-> Null, enable |-> TRUE]
        /\ Answered(i, 400) /\ BillingCallsOf(i) = {}

\* C5: for every payload with a project identifier and enable = false, the
\* billing service is called with billingEnabled = false and
\* billingAccountName = "", whatever billingAccountId the payload carries and
\* whatever account the project was linked to; once applied, the project has
\* no account linked.
C5_DisableClearsAccount ==
    \A i \in Invocations :
        PassedChecks(i) /\ ~NoIdentifier(inv[i].req.body.projectId) /\ ~inv[i].req.body.enable
        => /\ Updates(i, [name |-> "projects/" \o inv[i].req.body.projectId,
                          projectBillingInfo |-> [billingAccountName |-> "",
                                                  billingEnabled |-> FALSE]])
           /\ (inv[i].pc = "done" /\ inv[i].caught = <<>>
                 => billingInfo["projects/" \o inv[i].req.body.projectId] = NoBilling)

\* C5, a case: a disable carrying an account identifier is waiting on its
\* update, for a project that has an account linked
C5_Witness ==
    \E i \in Invocations :
        /\ PassedChecks(i) /\ inv[i].pc = "awaiting"
        /\ inv[i].req.body = [projectId |-> "p1", billingAccountId |-> "b1", enable |-> FALSE]
        /\ billingInfo["projects/p1"] = Linked
        /\ Updates(i, [name |-> "projects/p1", projectBillingInfo |-> NoBilling])

\* C6: for every payload with enable = true, billing account identifier b and
\* project p, the billing service is called with exactly name "projects/p",
\* billingEnabled = true and billingAccountName = "billingAccounts/b".
C6_EnableLinksAccount ==
    \A i \in Invocations :
        PassedChecks(i) /\ ~NoIdentifier(inv[i].req.body.projectId)
        /\ inv[i].req.body.enable /\ ~NoIdentifier(inv[i].req.body.billingAccountId)
        => Updates(i, [name |-> "projects/" \o inv[i].req.body.projectId,
                       projectBillingInfo |->
                           [billingAccountName |->
                                "billingAccounts/" \o inv[i].req.body.billingAccountId,
                            billingEnabled |-> TRUE]])

\* C6, a case: enabling p1 with b1 was applied
C6_Witness ==
    \E i \in Invocations :
        /\ PassedChecks(i)
        /\ inv[i].req.body = [projectId |-> "p1", billingAccountId |-> "b1", enable |-> TRUE]
        /\ Answered(i, 200)
        /\ Updates(i, [name |-> "projects/p1",
                       projectBillingInfo |-> [billingAccountName |-> "billingAccounts/b1",
                                               billingEnabled |-> TRUE]])
        /\ billingInfo["projects/p1"].billingAccountName = "billingAccounts/b1"

\* C7 as stated: when the billing service fails with the permission code and
\* the reason "service disabled", the callback answers 403 with an error
\* category of its own, not the one of a denied permission.
C7_ServiceDisabledHasItsCategory ==
    \A i \in Invocations :
        inv[i].pc = "done" /\ inv[i].caught # <<>>
        /\ HasCode(inv[i].caught[1], PERMISSION_DENIED)
        /\ HasReason(inv[i].caught[1], "SERVICE_DISABLED")
        => Answered(i, 403) /\ inv[i].res.sent[1].body.error # "Permission denied"

\* the billing state the payload of invocation i asks for
Asked(i) ==
    [billingAccountName |-> IF inv[i].req.body.enable
                            THEN "billingAccounts/" \o inv[i].req.body.billingAccountId
                            ELSE "",
     billingEnabled |-> inv[i].req.body.enable]

\* the positions in billingApplied of the updates for the project named n
AppliedTo(n) ==
    {k \in 1..Len(billingApplied) :
        "projects/" \o inv[billingApplied[k]].req.body.projectId = n}

\* C9: invocations for the same project each issue their own update, none
\* waits for another, and the billing state of a project is the one asked for
\* by the update the billing service applied last.
C9_LastAppliedUpdateWins ==
    /\ \A i \in Invocations : inv[i].pc = "received" => ENABLED ManageBilling(i)
    /\ \A i \in Invocations :
           inv[i].pc \in {"awaiting", "done"} => Cardinality(BillingCallsOf(i)) = 1
    /\ \A n \in BillingProjects :
           AppliedTo(n) # {}
           => LET last == CHOOSE k \in AppliedTo(n) : \A j \in AppliedTo(n) : j <= k
              IN  billingInfo[n] = Asked(billingApplied[last])

\* C9, a case: an enable and then a disable were issued for p1, the billing
\* service applied the disable first, and the project ended enabled
C9_Witness ==
    \E i, j \in Invocations :
        /\ inv[i].pc = "done" /\ inv[j].pc = "done"
        /\ inv[i].req.body = [projectId |-> "p1", billingAccountId |-> "b1", enable |-> TRUE]
        /\ inv[j].req.body = [projectId |-> "p1", billingAccountId |-> Null, enable |-> FALSE]
        /\ Answered(i, 200) /\ Answered(j, 200)
        /\ \E a, b \in 1..Len(billingCalls) :
               a < b /\ billingCalls[a].inv = i /\ billingCalls[b].inv = j
        /\ \E a, b \in 1..Len(billingApplied) :
               a < b /\ billingApplied[a] = j /\ billingApplied[b] = i
        /\ billingInfo["projects/p1"].billingEnabled

\* C9, the other outcome: issued in the same order, applied in that order,
\* the project ended disabled
C9_OtherOutcome ==
    \E i, j \in Invocations :
        /\ inv[i].pc = "done" /\ inv[j].pc = "done"
        /\ inv[i].req.body = [projectId |-> "p1", billingAccountId |-> "b1", enable |-> TRUE]
        /\ inv[j].req.body = [projectId |-> "p1", billingAccountId |-> Null, enable |-> FALSE]
        /\ Answered(i, 200) /\ Answered(j, 200)
        /\ \E a, b \in 1..Len(billingCalls) :
               a < b /\ billingCalls[a].inv = i /\ billingCalls[b].inv = j
        /\ \E a, b \in 1..Len(billingApplied) :
               a < b /\ billingApplied[a] = i /\ billingApplied[b] = j
        /\ ~billingInfo["projects/p1"].billingEnabled

-----------------------------------------------------------------------------
(* The registered job *)

\* createJob has returned to process r: Cloud Scheduler holds its job
Registered(r) ==
    /\ cli[r].pc \in {"getJob", "done"}
    /\ "response" \in DOMAIN cli[r].loc
    /\ cli[r].loc.job \in schedulerJobs

\* C11: the timezone of every registered job is the text given with
\* --timezone, unchanged, and "UTC" when none was given (commander's default,
\* or an empty text); the same with --time and with --cron.
C11_TimezoneUnchanged ==
    \A r \in Runs :
        Registered(r)
        => /\ cli[r].args.options.timezone # ""
                => cli[r].loc.job.timeZone = cli[r].args.options.timezone
           /\ cli[r].args.options.timezone = "" => cli[r].loc.job.timeZone = "UTC"

\* C11, a case: 09:00 in America/Los_Angeles is registered with that zone
C11_Witness ==
    \E r \in Runs :
        /\ Registered(r) /\ TimeOnly(cli[r].args.options)
        /\ cli[r].args.options.time = <<"0", "9", ":", "0", "0">>
        /\ cli[r].args.options.timezone = "America/Los_Angeles"
        /\ \E j \in schedulerJobs : j.timeZone = "America/Los_Angeles"

\* C11, the other form: a --cron job is registered with its zone as typed
C11_CronCase ==
    \E r \in Runs :
        /\ Registered(r) /\ CronOnly(cli[r].args.options)
        /\ cli[r].args.options.timezone = "america/los_angeles "
        /\ \E j \in schedulerJobs : j.timeZone = "america/los_angeles "

\* process r has built its job
Built(r) == Ran(r) /\ "job" \in DOMAIN cli[r].loc

\* the arguments scheduleOperation was called with by the command of r
Original(r) ==
    [projectId |-> cli[r].args.projectId,
     billingAccountId |-> IF cli[r].args.command = "schedule-enable"
                          THEN cli[r].args.billingAccountId ELSE Null,
     enable |-> cli[r].args.command = "schedule-enable"]

\* the body of the job, taken out of base64 and parsed
Decoded(job) == JSONParse(Base64Decode(job.httpTarget.body))

\* the parsed body d is an object with exactly the three properties of
\* request
SameRequest(d, request) ==
    /\ d.ok
    /\ DOMAIN d.value = {"projectId", "billingAccountId", "enable"}
    /\ d.value["projectId"] = request.projectId
    /\ d.value["billingAccountId"] = request.billingAccountId
    /\ d.value["enable"] = request.enable

\* C12: for every project identifier, billing account identifier (a string,
\* or null for a disable) and action, the body scheduleOperation puts in the
\* job, taken out of base64 and parsed as JSON, is an object whose projectId,
\* billingAccountId and enable are the ones scheduleOperation was given.
C12_PayloadRoundTrip ==
    \A r \in Runs : Built(r) => SameRequest(Decoded(cli[r].loc.job), Original(r))

\* C12, a case: a disable for a project identifier made of JSON's own
\* characters is registered, and its body reads back as that identifier
\* with a null account
C12_Witness ==
    \E r \in Runs :
        /\ Registered(r)
        /\ cli[r].args.command = "schedule-disable"
        /\ cli[r].args.projectId = "p\",\"enable\":true,\"x\":\""
        /\ \E j \in schedulerJobs :
               SameRequest(Decoded(j), [projectId |-> "p\",\"enable\":true,\"x\":\"",
                                        billingAccountId |-> Null, enable |-> FALSE])

-----------------------------------------------------------------------------
(* The checks of the callback before the body *)

\* invocation i has run manageBilling to its answer or to its await
Handled(i) == inv[i].pc \in {"awaiting", "done"}

\* invocation i has answered once, with this status and body, and has not
\* called the billing service
AnsweredOnly(i, status, body) ==
    /\ Answered(i, status)
    /\ inv[i].res.sent[1].body = body
    /\ BillingCallsOf(i) = {}

\* C13: an invocation whose method is neither POST nor OPTIONS is answered
\* 405 'Method not allowed' whatever its content type and its body are, and
\* makes no call to the billing service.
C13_OtherMethodRejected ==
    \A i \in Invocations :
        Handled(i) /\ inv[i].req.method \notin {"POST", "OPTIONS"}
        => AnsweredOnly(i, 405, MethodNotAllowed.body)

\* C13, a case: a GET that is no JSON and has no project identifier is
\* answered 405, not 400
C13_Witness ==
    \E i \in Invocations :
        /\ Handled(i) /\ inv[i].req.method = "GET"
        /\ inv[i].req.contentType = "text/plain"
        /\ inv[i].req.body.projectId = Undefined
        /\ AnsweredOnly(i, 405, MethodNotAllowed.body)

\* C14: a POST whose content type is not exactly application/json is answered
\* 400 'Invalid content type' whatever its body is, also a body that passes
\* the checks, and makes no call to the billing service.
C14_OtherContentTypeRejected ==
    \A i \in Invocations :
        Handled(i) /\ inv[i].req.method = "POST"
                   /\ inv[i].req.contentType # "application/json"
        => AnsweredOnly(i, 400, InvalidContentType.body)

\* C14, a case: a POST of text/plain with a body that passes the checks
C14_Witness ==
    \E i \in Invocations :
        /\ Handled(i) /\ inv[i].req.method = "POST"
        /\ inv[i].req.contentType = "text/plain"
        /\ Validate(inv[i].req.body) = ""
        /\ AnsweredOnly(i, 400, InvalidContentType.body)

\* C15: an OPTIONS invocation is answered 204 with an empty body and the
\* headers Access-Control-Allow-Origin: *, Access-Control-Allow-Methods and
\* Access-Control-Allow-Headers, whatever its content type and body, and
\* makes no call to the billing service.
C15_PreflightAnswered ==
    \A i \in Invocations :
        Handled(i) /\ inv[i].req.method = "OPTIONS"
        => /\ AnsweredOnly(i, 204, "")
           /\ DOMAIN inv[i].res.headers = {"Access-Control-Allow-Origin",
                                           "Access-Control-Allow-Methods",
                                           "Access-Control-Allow-Headers"}
           /\ inv[i].res.headers["Access-Control-Allow-Origin"] = "*"
           /\ inv[i].res.headers["Access-Control-Allow-Methods"] = "POST"
           /\ inv[i].res.headers["Access-Control-Allow-Headers"] = "Content-Type"

\* C15, a case: a preflight of text/plain whose body has no project identifier
C15_Witness ==
    \E i \in Invocations :
        /\ Handled(i) /\ inv[i].req.method = "OPTIONS"
        /\ inv[i].req.contentType = "text/plain"
        /\ inv[i].req.body.projectId = Null
        /\ AnsweredOnly(i, 204, "")
        /\ "Access-Control-Allow-Methods" \in DOMAIN inv[i].res.headers

-----------------------------------------------------------------------------
(* The answers of the callback after the update *)

\* the billing update of invocation i failed with this error
Failed(i, error) == inv[i].pc = "done" /\ inv[i].caught = <<error>>

\* C16: when the billing update fails with code 16, whatever the reason, or
\* with any error whose code is neither 7 nor 5 (also one with no code), the
\* callback answers 500 'Internal error' and the details of the body are the
\* message of the error, unchanged.
C16_OtherFailuresAnswered500 ==
    \A i \in Invocations :
        inv[i].pc = "done" /\ inv[i].caught # <<>>
        /\ ~HasCode(inv[i].caught[1], PERMISSION_DENIED)
        /\ ~HasCode(inv[i].caught[1], NOT_FOUND)
        => /\ Answered(i, 500)
           /\ inv[i].res.sent[1].body.error = "Internal error"
           /\ inv[i].res.sent[1].body.details = inv[i].caught[1].message
           /\ BillingCallsOf(i) # {}

\* C16, a case: an expired access token, code 16, was answered 500 with the
\* message of the error
C16_Witness ==
    \E i \in Invocations :
        /\ Failed(i, [code |-> UNAUTHENTICATED, reason |-> "ACCESS_TOKEN_EXPIRED",
                      message |-> "Request had invalid authentication credentials"])
        /\ Answered(i, 500)
        /\ inv[i].res.sent[1].body.details = "Request had invalid authentication credentials"

\* the billing update of invocation i succeeded
Succeeded(i) == inv[i].pc = "done" /\ inv[i].caught = <<>> /\ BillingCallsOf(i) # {}

\* C17 as stated: after a successful update the callback answers 200 and the
\* body holds the project identifier of the payload, its billing account
\* identifier as received, null when the payload carried none, the action,
\* and a confirmation message.
C17_SuccessEchoesPayload ==
    \A i \in Invocations :
        Succeeded(i)
        => /\ Answered(i, 200)
           /\ inv[i].res.sent[1].body.projectId = inv[i].req.body.projectId
           /\ inv[i].res.sent[1].body.billingAccountId =
                  (IF inv[i].req.body.billingAccountId = Undefined
                   THEN Null ELSE inv[i].req.body.billingAccountId)
           /\ inv[i].res.sent[1].body.enable = inv[i].req.body.enable
           /\ inv[i].res.sent[1].body.message =
                  "Successfully " \o (IF inv[i].req.body.enable THEN "enabled" ELSE "disabled")
                      \o " billing for project " \o inv[i].req.body.projectId

-----------------------------------------------------------------------------
(* The project of the scheduler *)

\* the action of the command of r has called scheduleOperation
Called(r) ==
    /\ Ran(r)
    /\ HasChars(cli[r].args.options, "time") \/ HasChars(cli[r].args.options, "cron")
    /\ ~Falsy(cli[r].args.functionUrl)

\* what scheduleOperation prints when getCurrentProjectId throws
ProjectNotRead ==
    <<SpinnerFail("Operation failed"),
      ConsoleError("Error: Failed to read project ID from gcloud config. Make sure you have run: gcloud config set project PROJECT_ID")>>

\* process r made no call to Cloud Scheduler and no job is held for it
NothingScheduled(r) ==
    /\ CallsOf(r, "createJob") = {}
    /\ CallsOf(r, "getJob") = {}
    /\ schedulerJobs = {}

\* C18: when the configuration file of gcloud cannot be read or has no
\* project line, scheduleOperation ends having printed the failure to read
\* the project identifier, and calls neither createJob nor getJob.
C18_UnresolvedProjectFails ==
    \A r \in Runs :
        Called(r) /\ (~gcloudConfig.readable \/ "project" \notin DOMAIN gcloudConfig)
        => /\ cli[r].pc = "done"
           /\ cli[r].out = ProjectNotRead
           /\ NothingScheduled(r)

\* C18, a case: the file cannot be read
C18_Witness ==
    \E r \in Runs :
        /\ Called(r) /\ ~gcloudConfig.readable
        /\ cli[r].pc = "done" /\ cli[r].out = ProjectNotRead /\ NothingScheduled(r)

\* C18, the other case: the file is read and has no project line
C18_NoProjectLine ==
    \E r \in Runs :
        /\ Called(r) /\ gcloudConfig = [readable |-> TRUE]
        /\ cli[r].pc = "done" /\ cli[r].out = ProjectNotRead /\ NothingScheduled(r)

\* beside C18: a project line with nothing but blanks after "project = " is
\* read as the empty identifier and the job is sent under "projects/"
C18_BlankProjectLine ==
    \E r \in Runs :
        /\ Called(r) /\ gcloudConfig = [readable |-> TRUE, project |-> <<" ">>]
        /\ \E k \in CallsOf(r, "createJob") :
               schedulerCalls[r][k].parent = "projects//locations/us-central1"

\* the createJob call of process r
CreateJobCall(r) == schedulerCalls[r][1]

\* the scheduling namespace of the project named p
Namespace(p) == "projects/" \o p \o "/locations/us-central1"

\* C19: the job of every schedule command is sent with the parent
\* projects/{current}/locations/us-central1 and the name {parent}/jobs/{job
\* identity}, where current is the project of the gcloud configuration, and
\* the projectId of its decoded body is the project given on the command
\* line; when the two projects differ, the parent is not the namespace of
\* the target and the projectId of the body is not the current project.
C19_NamespaceAndTargetApart ==
    \A r \in Runs :
        Built(r)
        => LET current == Join(Trim(gcloudConfig.project))
               target == cli[r].args.projectId
               call == CreateJobCall(r)
               body == Decoded(call.job)
           IN  /\ call.op = "createJob"
               /\ call.parent = Namespace(current)
               /\ call.job.name = Namespace(current) \o "/jobs/"
                      \o JobName(cli[r].args.command = "schedule-enable", target, cli[r].loc.now)
               /\ body.ok /\ body.value["projectId"] = target
               /\ current # target
                    => call.parent # Namespace(target) /\ body.value["projectId"] # current
               /\ \A j \in schedulerJobs : j = call.job

\* C19, a case: a job about p1 is registered from the project sched-proj
C19_Witness ==
    \E r \in Runs :
        /\ Registered(r)
        /\ cli[r].args.projectId = "p1"
        /\ gcloudConfig.project = SchedProj
        /\ CreateJobCall(r).parent = "projects/sched-proj/locations/us-central1"
        /\ \E j \in schedulerJobs :
               /\ j.name = "projects/sched-proj/locations/us-central1/jobs/billing-enable-p1-0"
               /\ Decoded(j).value["projectId"] = "p1"

-----------------------------------------------------------------------------
(* The read after the registration *)

\* createJob has returned to process r
Returned(r) == "response" \in DOMAIN cli[r].loc

\* getJob has returned to process r a job with no next-fire time
NoNextRun(r) ==
    /\ cli[r].pc = "done"
    /\ "nextRun" \in DOMAIN cli[r].loc
    /\ "scheduleTime" \notin DOMAIN cli[r].loc.nextRun

\* what process r printed holds no failure
NoFailure(r) ==
    \A k \in 1..Len(cli[r].out) : cli[r].out[k].kind \notin {"spinner.fail", "console.error"}

NotYetAvailable == ConsoleLog("Next run time not available yet. Check Cloud Console for details.")

\* C20: a schedule command calls getJob only once createJob has returned,
\* then exactly once and for the name of the job createJob returned; when the
\* job getJob returns has no next-fire time the command prints 'Next run time
\* not available yet' and no failure.
C20_OneGetJobAfterCreateJob ==
    \A r \in Runs :
        /\ ~Returned(r) => CallsOf(r, "getJob") = {}
        /\ Returned(r)
             => /\ Len(schedulerCalls[r]) = 2
                /\ schedulerCalls[r][1].op = "createJob"
                /\ schedulerCalls[r][2] = [op |-> "getJob", name |-> cli[r].loc.response.name]
                /\ cli[r].loc.response \in schedulerJobs
        /\ NoNextRun(r)
             => /\ cli[r].out[Len(cli[r].out)] = NotYetAvailable
                /\ NoFailure(r)

\* C20, a case: createJob returned, getJob was called once and returned a
\* job with no next-fire time
C20_Witness ==
    \E r \in Runs :
        /\ Returned(r) /\ NoNextRun(r)
        /\ Cardinality(CallsOf(r, "getJob")) = 1
        /\ cli[r].out[Len(cli[r].out)] = NotYetAvailable
        /\ NoFailure(r)

\* C20, before the answer: createJob is called and has not returned, and no
\* getJob is called
C20_AwaitingCreateJob ==
    \E r \in Runs :
        /\ cli[r].pc = "createJob"
        /\ Cardinality(CallsOf(r, "createJob")) = 1
        /\ CallsOf(r, "getJob") = {}

-----------------------------------------------------------------------------
(* Failures of the registration *)

\* createJob was rejected for process r
CreateJobRejected(r) == cli[r].rejected # <<>> /\ ~Returned(r)

\* process r printed that the schedule was made
ReportedSuccess(r) ==
    \E k \in 1..Len(cli[r].out) : cli[r].out[k].kind = "spinner.succeed"

\* C21: when createJob is rejected the command ends having made that one
\* call to Cloud Scheduler and no other, prints no success, and hands to
\* handleApiError the very error createJob was rejected with.
C21_CreateJobFailureHandedOn ==
    \A r \in Runs :
        CreateJobRejected(r)
        => /\ cli[r].pc = "done"
           /\ Len(schedulerCalls[r]) = 1 /\ schedulerCalls[r][1].op = "createJob"
           /\ ~ReportedSuccess(r)
           /\ cli[r].caught = cli[r].rejected /\ Len(cli[r].caught) = 1
           /\ cli[r].out = HandleApiError(cli[r].rejected[1])

\* C21, a case: createJob was rejected because the Cloud Scheduler API is
\* disabled, and that error reached handleApiError
C21_Witness ==
    \E r \in Runs :
        /\ CreateJobRejected(r)
        /\ cli[r].rejected = <<[code |-> PERMISSION_DENIED, reason |-> "SERVICE_DISABLED",
                                message |-> "API has not been used in project before or it is disabled"]>>
        /\ cli[r].caught = cli[r].rejected
        /\ Len(schedulerCalls[r]) = 1
        /\ ~ReportedSuccess(r)

-----------------------------------------------------------------------------
(* The checks of the command line *)

\* the command line of r gives neither --time nor --cron
NoTimeSource(r) ==
    ~HasChars(cli[r].args.options, "time") /\ ~HasChars(cli[r].args.options, "cron")

\* registration was never started for r: the gcloud configuration was not
\* read, nothing was handed to handleApiError, Cloud Scheduler was not called
NeverStarted(r) ==
    /\ cli[r].pc = "done"
    /\ cli[r].reads = 0
    /\ cli[r].caught = <<>>
    /\ schedulerCalls[r] = <<>>
    /\ schedulerJobs = {}

\* C22: a schedule command given neither --time nor --cron prints 'Either
\* --time or --cron must be specified', one given a time source while
\* BILLING_FUNCTION_URL is not set prints that it is not set, and in both
\* cases the gcloud configuration is not read and Cloud Scheduler is not
\* called.
C22_IncompleteCommandNeverStarts ==
    \A r \in Runs :
        Ran(r)
        => /\ NoTimeSource(r)
                => /\ NeverStarted(r)
                   /\ cli[r].out =
                          <<ConsoleError("Error: Either --time or --cron must be specified")>>
           /\ ~NoTimeSource(r) /\ Falsy(cli[r].args.functionUrl)
                => /\ NeverStarted(r)
                   /\ cli[r].out[1] =
                          ConsoleError("Error: BILLING_FUNCTION_URL environment variable is not set")
           /\ ~NoTimeSource(r) /\ ~Falsy(cli[r].args.functionUrl) => cli[r].reads = 1

\* C22, a case: schedule-disable with --time and no BILLING_FUNCTION_URL
C22_Witness ==
    \E r \in Runs :
        /\ Ran(r) /\ cli[r].args.command = "schedule-disable"
        /\ TimeOnly(cli[r].args.options) /\ cli[r].args.functionUrl = Undefined
        /\ gcloudConfig.readable
        /\ NeverStarted(r)
        /\ cli[r].out[1] =
               ConsoleError("Error: BILLING_FUNCTION_URL environment variable is not set")

\* C22, the other case: schedule-enable with neither --time nor --cron
C22_NoTimeSource ==
    \E r \in Runs :
        /\ Ran(r) /\ cli[r].args.command = "schedule-enable"
        /\ NoTimeSource(r) /\ cli[r].args.functionUrl = FunctionUrl
        /\ NeverStarted(r)

-----------------------------------------------------------------------------
(* What handleApiError prints *)

\* the lines process r printed after 'Operation failed'
Presented(r) ==
    LET k == CHOOSE n \in 1..Len(cli[r].out) : cli[r].out[n] = SpinnerFail("Operation failed")
    IN  SubSeq(cli[r].out, k + 1, Len(cli[r].out))

\* the hint of each category
EnableApisHint ==
    <<ConsoleError("Error: Required GCP APIs are not enabled."),
      ConsoleLog("gcloud services enable cloudbilling.googleapis.com"),
      ConsoleLog("gcloud services enable cloudresourcemanager.googleapis.com"),
      ConsoleLog("gcloud services enable cloudscheduler.googleapis.com")>>

IamRolesHint ==
    <<ConsoleError("Error: You don't have the required permissions to perform this action."),
      ConsoleLog("- Billing Account Administrator (roles/billing.admin)"),
      ConsoleLog("- Billing Account User (roles/billing.user) - for linking projects only")>>

ReauthenticateHint ==
    <<ConsoleError("Error: Authentication failed. Please make sure you are properly authenticated."),
      ConsoleLog("gcloud auth application-default login")>>

\* a remote service rejected a call of process r and the error was presented
RemoteFailure(r) == cli[r].rejected # <<>> /\ cli[r].caught = cli[r].rejected

\* C23: every failure of a remote call is presented once, as one category:
\* code 7 with reason SERVICE_DISABLED prints the commands that enable the
\* APIs, code 7 with reason PERMISSION_DENIED prints the IAM roles, code 16
\* prints the command to authenticate again whatever the reason, and every
\* other failure, code 7 with another reason or with none included, prints
\* 'Error: ' and the message of the error; nothing of another category is
\* printed beside it.
C23_OneCategoryPresented ==
    \A r \in Runs :
        RemoteFailure(r)
        => LET error == cli[r].caught[1]
               ServiceDisabled ==
                   HasCode(error, PERMISSION_DENIED) /\ HasReason(error, "SERVICE_DISABLED")
               PermissionDenied ==
                   HasCode(error, PERMISSION_DENIED) /\ HasReason(error, "PERMISSION_DENIED")
               Unauthenticated == HasCode(error, UNAUTHENTICATED)
           IN  /\ Len(cli[r].caught) = 1
               /\ Cardinality({k \in 1..Len(cli[r].out) :
                                   cli[r].out[k] = SpinnerFail("Operation failed")}) = 1
               /\ ServiceDisabled => Presented(r) = EnableApisHint
               /\ PermissionDenied => Presented(r) = IamRolesHint
               /\ Unauthenticated => Presented(r) = ReauthenticateHint
               /\ ~ServiceDisabled /\ ~PermissionDenied /\ ~Unauthenticated
                    => Presented(r) = <<ConsoleError("Error: " \o error.message)>>

\* C23, a case: code 7 with a reason that is neither of the two named ones is
\* presented with its message alone
C23_Witness ==
    \E r \in Runs :
        /\ RemoteFailure(r)
        /\ cli[r].caught = <<[code |-> PERMISSION_DENIED, reason |-> "IAM_PERMISSION_DENIED",
                              message |-> "Permission denied on resource"]>>
        /\ Presented(r) = <<ConsoleError("Error: Permission denied on resource")>>

\* C23, the named categories: each of the three hints is printed
C23_HintsPrinted ==
    \E r \in Runs :
        /\ RemoteFailure(r)
        /\ Presented(r) \in {EnableApisHint, IamRolesHint, ReauthenticateHint}
        /\ HasReason(cli[r].caught[1], "ACCESS_TOKEN_EXPIRED")

-----------------------------------------------------------------------------
(* The callback as a whole *)

\* the statuses invocation i has answered with
StatusesOf(i) == {inv[i].res.sent[k].status : k \in 1..Len(inv[i].res.sent)}

\* the update of invocation i was applied by the billing service
Applied(i) == \E k \in 1..Len(billingApplied) : billingApplied[k] = i

\* C24: an invocation calls updateProjectBillingInfo at most once; it answers
\* 200 exactly when it made the call and the call returned without error; an
\* invocation that answered 204, 405 or 400 made no call; a call that failed
\* is never answered with a status from 200 to 299.
C24_OneCallAnd200OnlyOnSuccess ==
    \A i \in Invocations :
        inv[i].pc # "idle"
        => /\ Cardinality(BillingCallsOf(i)) <= 1
           /\ 200 \in StatusesOf(i)
                <=> inv[i].pc = "done" /\ BillingCallsOf(i) # {} /\ Applied(i)
                                       /\ inv[i].caught = <<>>
           /\ StatusesOf(i) \cap {204, 405, 400} # {} => BillingCallsOf(i) = {}
           /\ inv[i].caught # <<>>
                => BillingCallsOf(i) # {} /\ StatusesOf(i) \cap (200..299) = {}
           /\ inv[i].pc = "done" /\ BillingCallsOf(i) = {}
                => StatusesOf(i) \subseteq {204, 405, 400}

\* C24, a case: a call that failed with not-found was answered 404
C24_Witness ==
    \E i \in Invocations :
        /\ inv[i].pc = "done"
        /\ Cardinality(BillingCallsOf(i)) = 1
        /\ inv[i].caught # <<>> /\ HasCode(inv[i].caught[1], NOT_FOUND)
        /\ StatusesOf(i) = {404}
        /\ ~Applied(i)

\* C24, the success: a call that returned was answered 200
C24_Success ==
    \E i \in Invocations :
        /\ inv[i].pc = "done" /\ Cardinality(BillingCallsOf(i)) = 1
        /\ Applied(i) /\ StatusesOf(i) = {200}

\* the number of responses invocation i has sent
Responses(i) == Len(inv[i].res.sent)

\* C25: every invocation of the callback, whatever its method, content type,
\* body and the outcome of the billing call, comes to its end having sent
\* exactly one response: it never ends without one and never sends a second.
C25_ExactlyOneResponse ==
    /\ [](\A i \in Invocations :
              /\ Responses(i) <= 1
              /\ inv[i].pc = "done" <=> Responses(i) = 1)
    /\ \A i \in Invocations :
           (inv[i].pc = "received") ~> (inv[i].pc = "done" /\ Responses(i) = 1)

\* C25, a case: all invocations have ended, one of them after a billing call
\* that failed, each with one response
C25_Witness ==
    /\ \A i \in Invocations : inv[i].pc = "done" /\ Responses(i) = 1
    /\ \E i \in Invocations : inv[i].caught # <<>> /\ StatusesOf(i) = {500}
    /\ \E i \in Invocations : StatusesOf(i) \cap {204, 405, 400, 200} # {}

-----------------------------------------------------------------------------
(* From the registration to the firing *)

\* the command of process r is one whose job is to be accepted: a
\* schedule-disable, or a schedule-enable with a billing account identifier
Acceptable(r) ==
    \/ cli[r].args.command = "schedule-disable"
    \/ cli[r].args.command = "schedule-enable" /\ cli[r].args.billingAccountId # ""

\* invocation i was fired with the job of process r
FiredWith(i, r) ==
    /\ Registered(r)
    /\ inv[i].pc # "idle"
    /\ inv[i].req = FiredRequest(cli[r].loc.job)

\* invocation i has passed the checks and called the billing service for the
\* project and the action of the command of process r
AcceptedFor(i, r) ==
    /\ StatusesOf(i) \cap {400, 405} = {}
    /\ \E k \in BillingCallsOf(i) :
           /\ billingCalls[k].request.name = "projects/" \o cli[r].args.projectId
           /\ billingCalls[k].request.projectBillingInfo.billingEnabled
                  = (cli[r].args.command = "schedule-enable")

\* C26 as stated: every job registered for a schedule-disable, or for a
\* schedule-enable with a non-empty billing account identifier, when fired as
\* registered, passes the method, content-type and body checks of the callback
\* and reaches the billing update of its project with its action; it is never
\* answered 400 or 405.
C26_FiredJobAccepted ==
    \A r \in Runs : \A i \in Invocations :
        FiredWith(i, r) /\ Acceptable(r) /\ Handled(i) => AcceptedFor(i, r)

\* C26, where it holds: the job of a command with a project identifier
C26_NamedProjectAccepted ==
    \A r \in Runs : \A i \in Invocations :
        FiredWith(i, r) /\ Acceptable(r) /\ cli[r].args.projectId # "" /\ Handled(i)
        => AcceptedFor(i, r)

\* C26, a job that is accepted: a schedule-disable of p1, fired, the update
\* applied
C26_Accepted ==
    \E i \in Invocations :
        /\ FiredWith(i, 1) /\ cli[1].args.command = "schedule-disable"
        /\ cli[1].args.projectId = "p1"
        /\ Answered(i, 200) /\ AcceptedFor(i, 1)

\* C26, the job that is not: schedule-disable "" is registered, reported as
\* scheduled, and its firing is answered 400 'Project ID is required'
C26_EmptyProjectRejected ==
    \E i \in Invocations :
        /\ FiredWith(i, 1) /\ cli[1].args.command = "schedule-disable"
        /\ cli[1].args.projectId = ""
        /\ ReportedSuccess(1)
        /\ AnsweredOnly(i, 400, [error |-> "Missing parameter",
                                 message |-> "Project ID is required"])

-----------------------------------------------------------------------------
(* A failure after the registration *)

\* createJob returned to process r and its getJob was then rejected
GetJobRejected(r) == Returned(r) /\ cli[r].rejected # <<>>

\* process r printed the failure of the operation
ReportedFailure(r) ==
    \E k \in 1..Len(cli[r].out) : cli[r].out[k] = SpinnerFail("Operation failed")

\* C27: when createJob succeeds and getJob is then rejected, the command
\* makes no further call to Cloud Scheduler, no delete among them: the job
\* stays registered, and the same command, which printed the success of the
\* scheduling, ends by printing 'Operation failed'.
C27_NoRollbackAfterGetJobFailure ==
    \A r \in Runs :
        GetJobRejected(r)
        => /\ cli[r].pc = "done"
           /\ cli[r].loc.response \in schedulerJobs
           /\ Len(schedulerCalls[r]) = 2
           /\ schedulerCalls[r][1].op = "createJob"
           /\ schedulerCalls[r][2].op = "getJob"
           /\ cli[r].caught = cli[r].rejected /\ Len(cli[r].rejected) = 1
           /\ ReportedSuccess(r) /\ ReportedFailure(r)

\* C27, a case: getJob was rejected after createJob returned; the command
\* has reported a failure and its job is registered
C27_Witness ==
    \E r \in Runs :
        /\ GetJobRejected(r)
        /\ cli[r].rejected = <<Unavailable>>
        /\ ReportedFailure(r)
        /\ \E j \in schedulerJobs : j.name = cli[r].loc.job.name

-----------------------------------------------------------------------------
(* The immediate path and the scheduled path *)

\* process r has called updateProjectBillingInfo
DirectCalled(r) ==
    /\ cli[r].pc \in {"updateProjectBillingInfo", "done"}
    /\ cli[r].args.command \in {"enable", "disable"}

\* the command of process r and the payload of invocation i are the same
\* project, billing account and action, and the callback lets them through
SameChange(r, i) ==
    /\ DirectCalled(r)
    /\ Handled(i)
    /\ Validate(inv[i].req.body) = ""
    /\ SetBillingStatusArgs(cli[r].args) = inv[i].req.body

\* the update Cloud Billing applied last is the state of its project
LastApplied ==
    billingApplied # <<>>
    => LET request == RequestOf(billingApplied[Len(billingApplied)])
       IN  billingInfo[request.name] = request.projectBillingInfo

\* C28: for the same project, billing account and action, let through by the
\* validation of the callback, setBillingStatus and manageBilling send the
\* same request to updateProjectBillingInfo: the same name, billingAccountName
\* and billingEnabled; and what Cloud Billing holds for a project is the
\* projectBillingInfo of the request it applied last, whichever path sent it.
C28_SameRequestOnBothPaths ==
    /\ \A r \in Runs : \A i \in Invocations :
           cli[r].pc # "idle" /\ inv[i].pc # "idle" /\ SameChange(r, i)
           => /\ Cardinality(BillingCallsOf(i)) = 1
              /\ RequestOf(Direct(r)) = RequestOf(i)
    /\ LastApplied

\* C28, a case: enable p1 b1 on both paths, both applied
C28_Witness ==
    \E r \in Runs : \E i \in Invocations :
        /\ cli[r].pc = "done" /\ inv[i].pc = "done" /\ SameChange(r, i)
        /\ inv[i].req.body = [projectId |-> "p1", billingAccountId |-> "b1", enable |-> TRUE]
        /\ Len(billingApplied) = 2
        /\ RequestOf(i).projectBillingInfo
               = [billingAccountName |-> "billingAccounts/b1", billingEnabled |-> TRUE]
        /\ billingInfo["projects/p1"] = RequestOf(Direct(r)).projectBillingInfo

\* C28, the disable: disable p1 on both paths, the payload with a null
\* billing account, both applied
C28_Disable ==
    \E r \in Runs : \E i \in Invocations :
        /\ cli[r].pc = "done" /\ inv[i].pc = "done" /\ SameChange(r, i)
        /\ inv[i].req.body = [projectId |-> "p1", billingAccountId |-> Null, enable |-> FALSE]
        /\ Len(billingApplied) = 2
        /\ billingInfo["projects/p1"] = NoBilling

====
